---- MODULE Spec2Model ----
(***************************************************************************)
(* Model of solar-nextjs/lib/monitoring-service.ts: the MonitoringService  *)
(* singleton (reset, load-shedding, grid-feed and offline monitors) driven *)
(* by the cron route and the other routes that touch it.                   *)
(*                                                                         *)
(* Time is counted in minutes since the service was constructed; the       *)
(* source compares millisecond differences, so differences are multiplied  *)
(* by MsPerMinute before they meet the source's millisecond constants.     *)
(* All `new Date()` calls of one handler run read the same minute.         *)
(***************************************************************************)
EXTENDS Integers, Sequences, FiniteSets, TLC

VARIABLES
    state,      \* MonitoringService.state
    settings,   \* settings file of SettingsStorage: key -> value
    now,        \* wall clock, minutes since construction
    bootMinute, \* local minute of day at construction
    initDone,   \* the constructor's initializeGridFeedStatus() has resolved
    sent,       \* alerts dispatched by the last handler run, in order
    last,       \* the last handler run: what it read, and the grid-feed
                \* status resolved by the most recent check of it
    prev,       \* the monitors' flags when the last handler run began
    alertLog,   \* per alert kind: times of the two most recent alerts
    calls,      \* runAllChecks passes begun while passes may overlap, each
                \* parked at an await or done
    trail,      \* while the cron passes since construction have read the
                \* voltages of Scenario in order: the number of load-shedding
                \* alerts each of them sent
    daily,      \* the last getDailyStats call: its date, the rows the
                \* upstream returned, its result, and the result of the call
                \* before it when that call had the same date and rows
    page,       \* the dashboard after its last fetchData: the selected
                \* date, the graph it received and the values it set
    api,        \* the WatchPowerAPI client: its token, and the getDailyData
                \* or getDeviceLastData call in progress
    ranged,     \* the stream of GET /api/stats-range: the range asked for,
                \* the date being fetched and the records enqueued so far
    http,       \* the last request to a cron endpoint: its route, its
                \* Authorization header and the status it was answered with
    env         \* process.env

vars == <<state, settings, now, bootMinute, initDone, sent, last, prev,
          alertLog, calls, trail, daily, page, api, ranged, http, env>>

----------------------------------------------------------------------------
\* Bounds of the model

MaxNow == 80
MaxShedNow == 600
MaxOverlapNow == 20
MaxCalls == 2
MaxFaultNow == 40
MaxBeliefNow == 50
MaxDailyNow == 20
MaxPageNow == 15
MaxCycles == 3
MaxRangeDays == 2
MaxCronNow == 30

\* minutes between two handler runs
Deltas == {10, 50}
ShedDeltas == {100, 200}
FaultDeltas == {10, 20}
DailyDeltas == {10}
PageDeltas == {5}

\* local minute of day at which the service may be constructed
BootMinutes == {415, 1045}

----------------------------------------------------------------------------
\* Program constants

NULL == -1
NoPriority == "null"
MsPerMinute == 60000

EXPECTED_OUTPUT_PRIORITY == "Solar Utility Bat"
ResetReminderMs == 60 * 60 * 1000
LoadSheddingReminderMs == 5 * 60 * 60 * 1000

gridFeedAlertIntervalHours == 1
loadSheddingVoltageThreshold == 180
systemOfflineThresholdMinutes == 10

GRID_KEY == "grid_feeding_enabled"

config == [gridFeedAlertIntervalHours |-> gridFeedAlertIntervalHours,
           loadSheddingVoltageThreshold |-> loadSheddingVoltageThreshold,
           systemOfflineThresholdMinutes |-> systemOfflineThresholdMinutes]

----------------------------------------------------------------------------
\* SettingsStorage

storageGet(s, key, defaultValue) ==
    IF key \in DOMAIN s THEN s[key] ELSE defaultValue

\* (variant: the write is never made)
storageSet_dropped(s, key, value, writeOk) == s

\* saveSettings swallows a failed write: the file keeps its old content
storageSet(s, key, value, writeOk) ==
    IF writeOk
    THEN [k \in (DOMAIN s) \cup {key} |-> IF k = key THEN value ELSE s[k]]
    ELSE s

----------------------------------------------------------------------------
\* MonitoringService

constructorState ==
    [lastGridFeedCheck |-> NULL,
     lastLoadSheddingAlertTime |-> NULL,
     lastResetAlertTime |-> NULL,
     lastDataTimestamp |-> 0,
     lastSystemOfflineAlertTime |-> NULL,
     isLoadShedding |-> FALSE,
     systemResetDetected |-> FALSE,
     systemOnline |-> TRUE,
     lastKnownOutputPriority |-> NoPriority,
     gridFeedingEnabled |-> TRUE,
     previousGridFeedStatus |-> TRUE]

\* result of a check: the new state, the alerts it dispatched, and whether
\* it completed by throwing
Out(st, alerts) == [state |-> st, alerts |-> alerts, threw |-> FALSE]

Escaped(st, alerts) == [state |-> st, alerts |-> alerts, threw |-> TRUE]

\* try { body } catch (error) { console.error(...) }: the error is logged and
\* the function returns normally with whatever the body had written
tryCatch(r) == [r EXCEPT !.threw = FALSE]

\* The notification channels, in the order of the array literal handed to
\* Promise.allSettled. A luck says, per channel, whether its transport call
\* (sendMail, axios.post) succeeds.
Channels == <<"email", "telegram", "discord">>

ChannelSet == {Channels[i] : i \in DOMAIN Channels}

Lucks == [ChannelSet -> BOOLEAN]

AllDelivered == [c \in ChannelSet |-> TRUE]

\* sendEmail / sendMessage: the transport call sits in a try/catch that
\* returns false, so the promise is fulfilled either way
sendMessage(transportOk) == [status |-> "fulfilled", value |-> transportOk]

\* Promise.allSettled: every promise of the array was started, the join
\* waits for all of them and never rejects
allSettled(promises) ==
    [attempted |-> DOMAIN promises,
     delivered |-> {c \in DOMAIN promises :
                       promises[c].status = "fulfilled" /\ promises[c].value},
     threw |-> FALSE]

\* (variant: the channels are awaited one after the other and a failed send
\* throws)
dispatch_awaitEach(luck) ==
    LET failing == {i \in DOMAIN Channels : ~luck[Channels[i]]}
        upTo == IF failing = {} THEN Len(Channels)
                ELSE CHOOSE i \in failing : \A j \in failing : i <= j
    IN [attempted |-> {Channels[i] : i \in 1..upTo},
        delivered |-> {Channels[i] : i \in (1..upTo) \ failing},
        threw |-> failing # {}]

\* one alert: await Promise.allSettled([email.send..., telegram.send...,
\* discord.send...])
dispatch(luck) == allSettled([c \in ChannelSet |-> sendMessage(luck[c])])

NoDispatch == [attempted |-> {}, delivered |-> {}, threw |-> FALSE]

\* (variant: the offline alert time survives the recovery)
updateDataTimestamp_keepAlertTime(st, t) ==
    [st EXCEPT !.lastDataTimestamp = t, !.systemOnline = TRUE]

\* (variant: the timestamp is stamped only when the system comes back)
updateDataTimestamp_onRecovery(st, t) ==
    IF ~st.systemOnline
    THEN [st EXCEPT !.lastDataTimestamp = t,
                    !.systemOnline = TRUE,
                    !.lastSystemOfflineAlertTime = NULL]
    ELSE st

updateDataTimestamp(st, t) ==
    IF ~st.systemOnline
    THEN [st EXCEPT !.lastDataTimestamp = t,
                    !.systemOnline = TRUE,
                    !.lastSystemOfflineAlertTime = NULL]
    ELSE [st EXCEPT !.lastDataTimestamp = t]

\* A fetch: "throw", "empty" (no rows), or the latest row's fields 38, 6, 8
\* ("" is a missing or falsy field).
Priorities == {"", "Solar Utility Bat", "Utility Solar Bat", "Solar First"}
Voltages == {<<0, 0>>, <<0, 170>>, <<170, 0>>, <<180, 0>>, <<230, 0>>}

FailedFetches ==
    {[kind |-> "throw", f38 |-> "", f6 |-> 0, f8 |-> 0],
     [kind |-> "empty", f38 |-> "", f6 |-> 0, f8 |-> 0]}

RowFetch(p, v) == [kind |-> "rows", f38 |-> p, f6 |-> v[1], f8 |-> v[2]]

Fetches == FailedFetches \cup {RowFetch(p, v) : p \in Priorities, v \in Voltages}

systemDataOf(fetch) ==
    IF fetch.kind # "rows"
    THEN [outputPriority |-> "Unknown", gridVoltage |-> 0, success |-> FALSE]
    ELSE [outputPriority |-> IF fetch.f38 # "" THEN fetch.f38 ELSE "Unknown",
          gridVoltage |-> IF fetch.f6 = 0 THEN fetch.f8 ELSE fetch.f6,
          success |-> TRUE]

\* getCurrentSystemData: the reading, and the state after updateDataTimestamp
getCurrentSystemData(st, fetch, t) ==
    [data |-> systemDataOf(fetch),
     state |-> IF fetch.kind = "rows" THEN updateDataTimestamp(st, t) ELSE st]

\* (variant: the sentinel is taken for a priority)
resetShouldSend_unknownDeviates(st, outputPriority, t) ==
    /\ outputPriority # EXPECTED_OUTPUT_PRIORITY
    /\ \/ ~st.systemResetDetected
       \/ st.lastResetAlertTime = NULL
       \/ (t - st.lastResetAlertTime) * MsPerMinute >= ResetReminderMs

\* (variant: the reminder interval is not looked at)
resetShouldSend_everyCheck(st, outputPriority, t) ==
    /\ outputPriority # "Unknown"
    /\ outputPriority # EXPECTED_OUTPUT_PRIORITY

\* (variant: an active episode never reminds)
resetShouldSend_noReminder(st, outputPriority, t) ==
    /\ outputPriority # "Unknown"
    /\ outputPriority # EXPECTED_OUTPUT_PRIORITY
    /\ \/ ~st.systemResetDetected
       \/ st.lastResetAlertTime = NULL

\* checkSystemReset, lines 156-179: does this call dispatch an alert?
resetShouldSend(st, outputPriority, t) ==
    /\ outputPriority # "Unknown"
    /\ outputPriority # EXPECTED_OUTPUT_PRIORITY
    /\ \/ ~st.systemResetDetected
       \/ st.lastResetAlertTime = NULL
       \/ (t - st.lastResetAlertTime) * MsPerMinute >= ResetReminderMs

\* (variant: the expected priority leaves the alert state as it is)
resetCommit_noClear(st, outputPriority, t, sends) ==
    IF outputPriority = "Unknown" THEN st
    ELSE IF outputPriority # EXPECTED_OUTPUT_PRIORITY /\ sends
    THEN [st EXCEPT !.systemResetDetected = TRUE,
                    !.lastResetAlertTime = t,
                    !.lastKnownOutputPriority = outputPriority]
    ELSE [st EXCEPT !.lastKnownOutputPriority = outputPriority]

\* checkSystemReset, lines 181-189: the writes after the dispatch was awaited
\* (sends = the call dispatched an alert, at its own time t)
resetCommit(st, outputPriority, t, sends) ==
    IF outputPriority = "Unknown" THEN st
    ELSE IF outputPriority # EXPECTED_OUTPUT_PRIORITY
    THEN IF sends
         THEN [st EXCEPT !.systemResetDetected = TRUE,
                         !.lastResetAlertTime = t,
                         !.lastKnownOutputPriority = outputPriority]
         ELSE [st EXCEPT !.lastKnownOutputPriority = outputPriority]
    ELSE [st EXCEPT !.systemResetDetected = FALSE,
                    !.lastResetAlertTime = NULL,
                    !.lastKnownOutputPriority = outputPriority]

checkSystemReset(st, outputPriority, t, luck) ==
    LET sends == resetShouldSend(st, outputPriority, t)
    IN tryCatch(IF sends /\ dispatch(luck).threw
                THEN Escaped(st, <<"systemReset">>)
                ELSE Out(resetCommit(st, outputPriority, t, sends),
                         IF sends THEN <<"systemReset">> ELSE <<>>))

\* (variant: the threshold itself already counts as low)
loadSheddingShouldSend_atThreshold(st, gridVoltage, t) ==
    /\ gridVoltage > 0
    /\ gridVoltage <= config.loadSheddingVoltageThreshold
    /\ \/ ~st.isLoadShedding
       \/ st.lastLoadSheddingAlertTime = NULL
       \/ (t - st.lastLoadSheddingAlertTime) * MsPerMinute >= LoadSheddingReminderMs

\* (variant: no load-shedding alert while a reset episode is active)
loadSheddingShouldSend_quietInReset(st, gridVoltage, t) ==
    /\ ~st.systemResetDetected
    /\ gridVoltage > 0
    /\ gridVoltage < config.loadSheddingVoltageThreshold
    /\ \/ ~st.isLoadShedding
       \/ st.lastLoadSheddingAlertTime = NULL
       \/ (t - st.lastLoadSheddingAlertTime) * MsPerMinute >= LoadSheddingReminderMs

\* checkLoadShedding, lines 200-220: does this call dispatch an alert?
loadSheddingShouldSend(st, gridVoltage, t) ==
    /\ gridVoltage > 0
    /\ gridVoltage < config.loadSheddingVoltageThreshold
    /\ \/ ~st.isLoadShedding
       \/ st.lastLoadSheddingAlertTime = NULL
       \/ (t - st.lastLoadSheddingAlertTime) * MsPerMinute >= LoadSheddingReminderMs

\* (variant: the end of load shedding keeps the last alert time)
loadSheddingCommit_keepAlertTime(st, gridVoltage, t, sends) ==
    IF gridVoltage > 0 /\ gridVoltage < config.loadSheddingVoltageThreshold
    THEN IF sends
         THEN [st EXCEPT !.isLoadShedding = TRUE,
                         !.lastLoadSheddingAlertTime = t]
         ELSE st
    ELSE IF gridVoltage > config.loadSheddingVoltageThreshold
    THEN [st EXCEPT !.isLoadShedding = FALSE]
    ELSE st

\* checkLoadShedding, lines 222-231: the writes after the dispatch was awaited
loadSheddingCommit(st, gridVoltage, t, sends) ==
    IF gridVoltage > 0 /\ gridVoltage < config.loadSheddingVoltageThreshold
    THEN IF sends
         THEN [st EXCEPT !.isLoadShedding = TRUE,
                         !.lastLoadSheddingAlertTime = t]
         ELSE st
    ELSE IF gridVoltage > config.loadSheddingVoltageThreshold
    THEN [st EXCEPT !.isLoadShedding = FALSE,
                    !.lastLoadSheddingAlertTime = NULL]
    ELSE st

checkLoadShedding(st, gridVoltage, t, luck) ==
    LET sends == loadSheddingShouldSend(st, gridVoltage, t)
    IN tryCatch(IF sends /\ dispatch(luck).threw
                THEN Escaped(st, <<"loadShedding">>)
                ELSE Out(loadSheddingCommit(st, gridVoltage, t, sends),
                         IF sends THEN <<"loadShedding">> ELSE <<>>))

\* (variant: the return of the feed is announced as well)
gridFeedShouldSend_announcesReturn(st, gridFeedEnabled, t) ==
    LET wentFromOnToOff == st.previousGridFeedStatus /\ ~gridFeedEnabled
    IN \/ wentFromOnToOff
       \/ gridFeedEnabled /\ ~st.gridFeedingEnabled
       \/ /\ ~gridFeedEnabled
          /\ \/ st.lastGridFeedCheck = NULL
             \/ (t - st.lastGridFeedCheck) * MsPerMinute >=
                    config.gridFeedAlertIntervalHours * 60 * 60 * 1000

\* checkGridFeed, lines 245-283: does this call dispatch an alert?
gridFeedShouldSend(st, gridFeedEnabled, t) ==
    LET wentFromOnToOff == st.previousGridFeedStatus /\ ~gridFeedEnabled
    IN \/ wentFromOnToOff
       \/ /\ ~gridFeedEnabled
          /\ \/ st.lastGridFeedCheck = NULL
             \/ (t - st.lastGridFeedCheck) * MsPerMinute >=
                    config.gridFeedAlertIntervalHours * 60 * 60 * 1000

\* (variant: a check that resolves enabled keeps the alert time)
gridFeedCommit_keepTime(st, gridFeedEnabled, t, sends) ==
    [st EXCEPT !.lastGridFeedCheck = IF sends THEN t ELSE st.lastGridFeedCheck,
               !.previousGridFeedStatus = st.gridFeedingEnabled,
               !.gridFeedingEnabled = gridFeedEnabled]

\* checkGridFeed, lines 261, 282, 286-291: the writes to this.state
gridFeedCommit(st, gridFeedEnabled, t, sends) ==
    [st EXCEPT !.lastGridFeedCheck =
                   IF sends THEN t
                   ELSE IF gridFeedEnabled THEN NULL
                   ELSE st.lastGridFeedCheck,
               !.previousGridFeedStatus = st.gridFeedingEnabled,
               !.gridFeedingEnabled = gridFeedEnabled]

\* checkGridFeed, as [state, alerts, threw, saved]: saved tells whether the
\* call reached settingsStorage.set (line 294)
checkGridFeed(st, gridFeedEnabled, t, luck) ==
    LET sends == gridFeedShouldSend(st, gridFeedEnabled, t)
        body == IF sends /\ dispatch(luck).threw
                THEN Escaped(st, <<"gridFeedDisabled">>)
                ELSE Out(gridFeedCommit(st, gridFeedEnabled, t, sends),
                         IF sends THEN <<"gridFeedDisabled">> ELSE <<>>)
    IN [state |-> body.state, alerts |-> body.alerts,
        threw |-> tryCatch(body).threw, saved |-> ~body.threw]

\* (variant: the threshold itself already counts as offline)
checkSystemOffline_atThreshold(st, t, luck) ==
    LET timeSinceLastData == (t - st.lastDataTimestamp) * MsPerMinute
        thresholdMs == config.systemOfflineThresholdMinutes * 60 * 1000
    IN IF timeSinceLastData >= thresholdMs /\ st.systemOnline
       THEN Out([st EXCEPT !.systemOnline = FALSE,
                           !.lastSystemOfflineAlertTime = t],
                <<"systemOffline">>)
       ELSE Out(st, <<>>)

\* (variant: an hourly reminder while offline)
checkSystemOffline_reminding(st, t, luck) ==
    LET timeSinceLastData == (t - st.lastDataTimestamp) * MsPerMinute
        thresholdMs == config.systemOfflineThresholdMinutes * 60 * 1000
    IN IF /\ timeSinceLastData > thresholdMs
          /\ \/ st.systemOnline
             \/ (t - st.lastSystemOfflineAlertTime) * MsPerMinute >= 60 * 60 * 1000
       THEN Out([st EXCEPT !.systemOnline = FALSE,
                           !.lastSystemOfflineAlertTime = t],
                <<"systemOffline">>)
       ELSE Out(st, <<>>)

\* checkSystemOffline
checkSystemOffline(st, t, luck) ==
    LET timeSinceLastData == (t - st.lastDataTimestamp) * MsPerMinute
        thresholdMs == config.systemOfflineThresholdMinutes * 60 * 1000
    IN IF timeSinceLastData > thresholdMs /\ st.systemOnline
       THEN tryCatch(IF dispatch(luck).threw
                     THEN Escaped([st EXCEPT !.systemOnline = FALSE],
                                  <<"systemOffline">>)
                     ELSE Out([st EXCEPT !.systemOnline = FALSE,
                                         !.lastSystemOfflineAlertTime = t],
                              <<"systemOffline">>))
       ELSE Out(st, <<>>)

\* Device last data: "throw", "nodata", or the three power fields (watts)
Powers == {<<0, 501, 0>>, <<50, 501, 0>>, <<0, 300, 200>>, <<30, 300, 0>>,
           <<50, 300, 0>>}

FailedDevices ==
    {[kind |-> "throw", feed |-> 0, pv1 |-> 0, pv2 |-> 0],
     [kind |-> "nodata", feed |-> 0, pv1 |-> 0, pv2 |-> 0]}

DataDevice(w) == [kind |-> "data", feed |-> w[1], pv1 |-> w[2], pv2 |-> w[3]]

Devices == FailedDevices \cup {DataDevice(w) : w \in Powers}

\* Date.getHours() at minute t after construction
currentHourAt(boot, t) == ((boot + t) \div 60) % 24

\* a returned value, or a thrown error
Returns(v) == [value |-> v, threw |-> FALSE]

Throwing == [value |-> FALSE, threw |-> TRUE]

\* (variant: the saved status is consulted in every branch)
resolveGridFeed_savedFirst(device, s, currentHour) ==
    IF device.kind = "nodata" THEN storageGet(s, GRID_KEY, TRUE)
    ELSE LET isFeeding == device.feed >= 50
             savedGridStatus == storageGet(s, GRID_KEY, TRUE)
         IN IF isFeeding THEN TRUE
            ELSE IF savedGridStatus = FALSE THEN FALSE
            ELSE TRUE

\* (variant: without production to judge by, the status is enabled)
resolveGridFeed_enabledAtNight(device, s, currentHour) ==
    IF device.kind = "nodata" THEN storageGet(s, GRID_KEY, TRUE)
    ELSE LET solarFeedPower == device.feed
             pvPower == device.pv1 + device.pv2
             isDaytime == currentHour >= 7 /\ currentHour <= 17
             isProducing == pvPower > 500
             isFeeding == solarFeedPower >= 50
         IN IF isDaytime /\ isProducing THEN isFeeding
            ELSE TRUE

\* getGridFeedStatus, lines 436-476: the try block once the device read has
\* returned
resolveGridFeed(device, s, currentHour) ==
    IF device.kind = "nodata" THEN storageGet(s, GRID_KEY, TRUE)
    ELSE LET solarFeedPower == device.feed
             pvPower == device.pv1 + device.pv2
             isDaytime == currentHour >= 7 /\ currentHour <= 17
             isProducing == pvPower > 500
             isFeeding == solarFeedPower >= 50
         IN IF isDaytime /\ isProducing THEN isFeeding
            ELSE LET savedGridStatus == storageGet(s, GRID_KEY, TRUE)
                 IN IF isFeeding THEN TRUE
                    ELSE IF savedGridStatus = FALSE THEN FALSE
                    ELSE TRUE

\* (variant: no catch around the device read)
getGridFeedStatus_noCatch(device, s, currentHour) ==
    IF device.kind = "throw" THEN Throwing
    ELSE Returns(resolveGridFeed(device, s, currentHour))

\* getGridFeedStatus: the resolved status; a failed device read ends in the
\* catch (lines 478-481), which returns the saved status
getGridFeedStatus(device, s, currentHour) ==
    IF device.kind = "throw" THEN Returns(storageGet(s, GRID_KEY, TRUE))
    ELSE Returns(resolveGridFeed(device, s, currentHour))

\* runAllChecks in progress, once the fetch has returned: the monitor's state
\* and the settings file so far, the fetched data, the alerts dispatched, the
\* status handed to checkGridFeed ("none" while it was not called), whether
\* the settings file was written, the calls that completed by throwing, and
\* whether the try block is still running
Running(got, s) ==
    [state |-> got.state, settings |-> s, data |-> got.data, alerts |-> <<>>,
     feed |-> "none", written |-> FALSE, escaped |-> {}, go |-> TRUE]

\* await this.check...(): the awaited call `name` returned c, or threw, which
\* skips the rest of the try block
awaited(p, name, c) ==
    [p EXCEPT !.state = c.state,
              !.alerts = @ \o c.alerts,
              !.escaped = IF c.threw THEN @ \cup {name} ELSE @,
              !.go = ~c.threw]

\* (variant: the reset check is nested under the voltage test)
resetChecked_needsVoltage(p, t, luck) ==
    IF p.go /\ p.data.outputPriority # "Unknown" /\ p.data.gridVoltage > 0
    THEN awaited(p, "checkSystemReset",
                 checkSystemReset(p.state, p.data.outputPriority, t, luck))
    ELSE p

\* runAllChecks, lines 406-409
resetChecked(p, t, luck) ==
    IF p.go /\ p.data.outputPriority # "Unknown"
    THEN awaited(p, "checkSystemReset",
                 checkSystemReset(p.state, p.data.outputPriority, t, luck))
    ELSE p

\* (variant: a reading of zero volts ends the load-shedding episode)
shedChecked_zeroEndsEpisode(p, t, luck) ==
    IF p.go /\ p.data.gridVoltage > 0
    THEN awaited(p, "checkLoadShedding",
                 checkLoadShedding(p.state, p.data.gridVoltage, t, luck))
    ELSE IF p.go
    THEN [p EXCEPT !.state.isLoadShedding = FALSE,
                   !.state.lastLoadSheddingAlertTime = NULL]
    ELSE p

\* runAllChecks, lines 411-414
shedChecked(p, t, luck) ==
    IF p.go /\ p.data.gridVoltage > 0
    THEN awaited(p, "checkLoadShedding",
                 checkLoadShedding(p.state, p.data.gridVoltage, t, luck))
    ELSE p

\* runAllChecks, line 418: checkGridFeed(gridFeedEnabled) returned c; its
\* settingsStorage.set, when reached, wrote the file if the write succeeded
feedAwaited(p, gridFeedEnabled, writeOk, c) ==
    [awaited(p, "checkGridFeed", c) EXCEPT
        !.feed = IF gridFeedEnabled THEN "enabled" ELSE "disabled",
        !.settings = IF c.saved
                     THEN storageSet(@, GRID_KEY, gridFeedEnabled, writeOk)
                     ELSE @,
        !.written = c.saved /\ writeOk]

\* runAllChecks, lines 417-418, once getGridFeedStatus has completed
feedChecked(p, status, writeOk, t, luck) ==
    IF status.threw
    THEN [p EXCEPT !.escaped = @ \cup {"getGridFeedStatus"}, !.go = FALSE]
    ELSE feedAwaited(p, status.value, writeOk,
                     checkGridFeed(p.state, status.value, t, luck))

\* runAllChecks, lines 416-418
gridFeedChecked(p, device, writeOk, boot, t, luck) ==
    IF p.go
    THEN feedChecked(p, getGridFeedStatus(device, p.settings,
                                          currentHourAt(boot, t)),
                     writeOk, t, luck)
    ELSE p

\* runAllChecks, lines 405-419: the block under if (systemData.success)
whenFetched(p, device, writeOk, boot, t, luck) ==
    gridFeedChecked(shedChecked(resetChecked(p, t, luck), t, luck),
                    device, writeOk, boot, t, luck)

\* runAllChecks, line 422
offlineChecked(p, t, luck) ==
    IF p.go
    THEN awaited(p, "checkSystemOffline", checkSystemOffline(p.state, t, luck))
    ELSE p

\* runAllChecks, lines 399 and 425-427: the try block ended, by completing or
\* in the catch
returned(p) ==
    [state |-> p.state,
     settings |-> p.settings,
     alerts |-> p.alerts,
     data |-> p.data,
     feed |-> p.feed,
     written |-> p.written,
     escaped |-> p.escaped \cup
                 (IF tryCatch([threw |-> ~p.go]).threw THEN {"runAllChecks"}
                  ELSE {})]

\* (variant: the grid-feed check does not wait for a successful fetch)
runAllChecks_checksAnyway(st, s, fetch, device, writeOk, boot, t, luck) ==
    LET p == Running(getCurrentSystemData(st, fetch, t), s)
    IN returned(offlineChecked(
           gridFeedChecked(IF p.data.success
                           THEN shedChecked(resetChecked(p, t, luck), t, luck)
                           ELSE p,
                           device, writeOk, boot, t, luck),
           t, luck))

\* runAllChecks, lines 398-428, as [state, settings, alerts, data, feed,
\* written, escaped]: feed is the status handed to checkGridFeed ("none" when
\* it was not called), written tells whether the settings file was written,
\* escaped the functions whose call completed by throwing. An
\* error thrown inside the try block skips the rest of it (catch, line 425).
runAllChecks(st, s, fetch, device, writeOk, boot, t, luck) ==
    LET p == Running(getCurrentSystemData(st, fetch, t), s)
    IN returned(offlineChecked(
           IF p.data.success
           THEN whenFetched(p, device, writeOk, boot, t, luck)
           ELSE p,
           t, luck))

\* Calendar dates are day numbers on the wall clock the service runs on (the
\* routes shift the clock to PKT before they take the date); the service is
\* constructed on day 1.
MinutesPerDay == 24 * 60

dayOf(boot, t) == 1 + (boot + t) \div MinutesPerDay

minuteOfDay(boot, t) == (boot + t) % MinutesPerDay

\* A row of dat.row: n is the number of its fields, day the date its
\* timestamp (field 1) starts with, NULL when the field is empty, pv and load
\* the watts of fields 11 and 21 (0 when empty), mode field 47.
Row(n, day, pv, load, mode) ==
    [n |-> n, day |-> day, pv |-> pv, load |-> load, mode |-> mode]

\* The rows the upstream returned, as runs of equal rows: <<row, count>>.
Run(row, count) == [row |-> row, count |-> count]

RECURSIVE lengthOf(_)
lengthOf(runs) ==
    IF runs = <<>> THEN 0 ELSE Head(runs).count + lengthOf(Tail(runs))

RECURSIVE rowAt(_, _)
rowAt(runs, i) ==
    IF i <= Head(runs).count THEN Head(runs).row
    ELSE rowAt(Tail(runs), i - Head(runs).count)

\* data?.dat?.row || []
rowsOf(runs) == [i \in 1..lengthOf(runs) |-> rowAt(runs, i)]

\* What the upstream answers to queryDeviceDataOneDay: no answer or an error
\* code other than 12 (ThrowingDaily), err 12 ERR_NO_RECORD (NoRecord), or
\* err 0 with rows (DailyData).
ThrowingDaily == [kind |-> "throw", rows |-> <<>>]

NoRecord == [kind |-> "norecord", rows |-> <<>>]

DailyData(runs) == [kind |-> "rows", rows |-> runs]

\* (variant: ERR_NO_RECORD is an error like the others)
getDailyData_noRecordThrows(response) ==
    IF response.kind = "norecord" THEN ThrowingDaily ELSE response

\* api.getDailyData(dateStr), watchpower-api.ts: the rows of an err 0
\* answer, no rows for ERR_NO_RECORD, else it throws
getDailyData(response) ==
    IF response.kind = "norecord" THEN DailyData(<<>>) ELSE response

\* Math.round(num / den), den > 0: the nearest integer, halves upwards
MathRound(num, den) == (2 * num + den) \div (2 * den)

Max(a, b) == IF a >= b THEN a ELSE b

\* (variant: every row is taken, whatever its date)
retained_noFilter(rec, dateStr) == rec.n >= 22

\* getDailyStats, lines 317 and 320 (and the filter of lines 337-339): is the
\* row kept?
retained(rec, dateStr) ==
    /\ rec.n >= 22
    /\ rec.day # NULL
    /\ rec.day = dateStr

\* getDailyStats, line 324
modeOf(rec) == IF rec.n > 47 THEN rec.mode ELSE ""

ZeroTotals ==
    [totalProductionWh |-> 0, totalLoadWh |-> 0, batteryModeHours |-> 0,
     standbyModeHours |-> 0]

\* (variant: a standby sample counts as battery mode as well)
added_standbyTwice(rec, dateStr) ==
    IF ~retained(rec, dateStr) THEN ZeroTotals
    ELSE [totalProductionWh |-> rec.pv,
          totalLoadWh |-> rec.load,
          batteryModeHours |->
              IF modeOf(rec) \in {"Battery Mode", "Standby Mode"}
              THEN 1 ELSE 0,
          standbyModeHours |-> IF modeOf(rec) = "Standby Mode" THEN 1 ELSE 0]

\* getDailyStats, lines 316-333: what one pass of the loop body adds. The
\* watt-hour totals are kept in twelfths of a watt-hour (a slice is 5/60 of
\* an hour) and the mode hours in slices; the arithmetic is exact.
added(rec, dateStr) ==
    IF ~retained(rec, dateStr) THEN ZeroTotals
    ELSE [totalProductionWh |-> rec.pv,
          totalLoadWh |-> rec.load,
          batteryModeHours |-> IF modeOf(rec) = "Battery Mode" THEN 1 ELSE 0,
          standbyModeHours |->
              IF modeOf(rec) # "Battery Mode" /\ modeOf(rec) = "Standby Mode"
              THEN 1 ELSE 0]

plus(a, b) ==
    [totalProductionWh |-> a.totalProductionWh + b.totalProductionWh,
     totalLoadWh |-> a.totalLoadWh + b.totalLoadWh,
     batteryModeHours |-> a.batteryModeHours + b.batteryModeHours,
     standbyModeHours |-> a.standbyModeHours + b.standbyModeHours]

\* getDailyStats, lines 315-334: the for loop over rows lo..hi (the sums are
\* exact, so the rows are added up by halves)
RECURSIVE accumulate(_, _, _, _)
accumulate(rows, dateStr, lo, hi) ==
    IF lo > hi THEN ZeroTotals
    ELSE IF lo = hi THEN added(rows[lo], dateStr)
    ELSE plus(accumulate(rows, dateStr, lo, (lo + hi) \div 2),
              accumulate(rows, dateStr, (lo + hi) \div 2 + 1, hi))

expectedDataPoints == 288

\* getDailyStats, lines 337-339
actualDataPoints(rows, dateStr) ==
    Cardinality({i \in DOMAIN rows : retained(rows[i], dateStr)})

\* (variant: the difference is not clamped)
missingDataPoints_unclamped(actual) == expectedDataPoints - actual

\* getDailyStats, line 340
missingDataPoints(actual) == Max(0, expectedDataPoints - actual)

\* Hours as the code holds them: the minutes they stand for, and whether the
\* double lies just below that value. A quotient (points * 5) / 60 is the
\* nearest double; a sum of k slices of 5/60 falls below the whole hour for
\* the k of ShortSums (k up to 456).
ShortSums == {24, 60, 72, 84, 96, 108} \cup {k \in 240..456 : k % 12 = 0}

hoursOfSlices(k) == [minutes |-> 5 * k, short |-> k \in ShortSums]

hoursOfPoints(points) == [minutes |-> 5 * points, short |-> FALSE]

\* (variant: the minutes are the decimal fraction of the hours)
formatHours_decimal(decimalHours) ==
    [hrs |-> decimalHours.minutes \div 60,
     mins |-> MathRound((decimalHours.minutes % 60) * 100, 60)]

\* formatHours, lines 347-351, as [hrs, mins] of `${hrs} hr ${mins} min`
formatHours(decimalHours) ==
    IF decimalHours.short /\ decimalHours.minutes % 60 = 0
    THEN [hrs |-> decimalHours.minutes \div 60 - 1, mins |-> 60]
    ELSE [hrs |-> decimalHours.minutes \div 60,
          mins |-> decimalHours.minutes % 60]

\* formatHours(standbyModeHours + missingDataHours), line 362: the texts the
\* sum of the two doubles can format to
formatHoursOfSum(a, b) ==
    IF a.minutes = 0 THEN {formatHours(b)}
    ELSE IF b.minutes = 0 THEN {formatHours(a)}
    ELSE {formatHours([minutes |-> a.minutes + b.minutes, short |-> sh]) :
            sh \in BOOLEAN}

\* null
NoSummary ==
    [date |-> NULL, production_kwh |-> 0, load_kwh |-> 0,
     grid_contribution_kwh |-> 0,
     load_shedding_hours |-> [hrs |-> 0, mins |-> 0],
     standby_hours |-> [hrs |-> 0, mins |-> 0],
     missing_data_hours |-> [hrs |-> 0, mins |-> 0],
     system_off_hours |-> {},
     timestamp |-> NULL]

\* (variant: the expected count is the number of 5-minute intervals elapsed
\* at the call)
summaryOf_elapsed(dateStr, rows, acc, t) ==
    [date |-> dateStr,
     production_kwh |-> MathRound(acc.totalProductionWh, 120),
     load_kwh |-> MathRound(acc.totalLoadWh, 120),
     grid_contribution_kwh |->
         MathRound(acc.totalProductionWh - acc.totalLoadWh, 120),
     load_shedding_hours |-> formatHours(hoursOfSlices(acc.batteryModeHours)),
     standby_hours |-> formatHours(hoursOfSlices(acc.standbyModeHours)),
     missing_data_hours |->
         formatHours(hoursOfPoints(
             Max(0, t \div 5 - actualDataPoints(rows, dateStr)))),
     system_off_hours |->
         formatHoursOfSum(hoursOfSlices(acc.standbyModeHours),
                          hoursOfPoints(missingDataPoints(
                              actualDataPoints(rows, dateStr)))),
     timestamp |-> t]

\* getDailyStats, lines 336-365, after the loop: kWh in hundredths
summaryOf(dateStr, rows, acc, t) ==
    [date |-> dateStr,
     production_kwh |-> MathRound(acc.totalProductionWh, 120),
     load_kwh |-> MathRound(acc.totalLoadWh, 120),
     grid_contribution_kwh |->
         MathRound(acc.totalProductionWh - acc.totalLoadWh, 120),
     load_shedding_hours |-> formatHours(hoursOfSlices(acc.batteryModeHours)),
     standby_hours |-> formatHours(hoursOfSlices(acc.standbyModeHours)),
     missing_data_hours |->
         formatHours(hoursOfPoints(
             missingDataPoints(actualDataPoints(rows, dateStr)))),
     system_off_hours |->
         formatHoursOfSum(hoursOfSlices(acc.standbyModeHours),
                          hoursOfPoints(missingDataPoints(
                              actualDataPoints(rows, dateStr)))),
     timestamp |-> t]

\* getDailyStats once api.getDailyData has completed with data: null from
\* the catch (lines 366-369), else the summary
summarised(dateStr, data, t) ==
    IF data.kind = "throw" THEN Returns(NoSummary)
    ELSE Returns(summaryOf(dateStr, rowsOf(data.rows),
                           accumulate(rowsOf(data.rows), dateStr, 1,
                                      lengthOf(data.rows)),
                           t))

\* getDailyStats(dateStr) at minute t, the upstream answering `response`
getDailyStats(dateStr, response, t) ==
    summarised(dateStr, getDailyData(response), t)

\* GET /api/stats-range, no entry for the day yet
NoRange == [date |-> NULL, production_kwh |-> NULL, load_kwh |-> NULL]

\* GET /api/stats-range, lines 106-110, 133-137 and 152-157: a day without
\* data (null is NULL)
nullDay(dateStr) ==
    [date |-> dateStr, production_kwh |-> NULL, load_kwh |-> NULL]

\* GET /api/stats-range, lines 112-147: the day's entry from its rows
dayOfRows(dateStr, rows, acc) ==
    IF actualDataPoints(rows, dateStr) = 0 THEN nullDay(dateStr)
    ELSE [date |-> dateStr,
          production_kwh |-> MathRound(acc.totalProductionWh, 120),
          load_kwh |-> MathRound(acc.totalLoadWh, 120)]

\* GET /api/stats-range, lines 90-158: the entry of one day of the range
\* (data is what api.getDailyData gave once the retries were through)
rangeDay(dateStr, data) ==
    IF data.kind = "throw" \/ lengthOf(data.rows) = 0 THEN nullDay(dateStr)
    ELSE dayOfRows(dateStr, rowsOf(data.rows),
                   accumulate(rowsOf(data.rows), dateStr, 1,
                              lengthOf(data.rows)))

\* the same, the upstream answering `response`
dailyData(dateStr, response) == rangeDay(dateStr, getDailyData(response))

\* The daily statistics page (app/page.tsx). A point of res.data.graph: its
\* time is the text `HH:MM:SS` the statistics route cuts from the row's
\* timestamp, held as its three numbers.
Point(hour, min, sec, pv, load, mode) ==
    [time |-> [hour |-> hour, min |-> min, sec |-> sec],
     pv_power |-> pv, load_power |-> load, mode |-> mode]

\* What GET /api/stats answers: success with the graph, success: false, or
\* the request fails
GraphOf(graph) == [kind |-> "ok", graph |-> graph]
Unsuccessful == [kind |-> "fail", graph |-> <<>>]
FailedRequest == [kind |-> "throw", graph |-> <<>>]

\* fetchData, lines 174-178: time.split(':').map(Number), of which the hour
\* and the minute are taken
minutesOfTime(time) == time.hour * 60 + time.min

\* (variant: a pair more than one interval apart is a gap)
isGap_overInterval(timeDiff) == timeDiff > 5

\* fetchData, line 181
isGap(timeDiff) == timeDiff > 6

\* fetchData, lines 171-187: the gap between points i - 1 and i, if any
gapAt(prevTime, currTime) ==
    IF isGap(minutesOfTime(currTime) - minutesOfTime(prevTime))
    THEN <<[start |-> prevTime, end |-> currTime,
            duration |-> minutesOfTime(currTime) - minutesOfTime(prevTime) - 5]>>
    ELSE <<>>

\* fetchData, lines 168-189: the loop from index i (1-based) on
RECURSIVE gapsFrom(_, _)
gapsFrom(graphData, i) ==
    IF i > Len(graphData) THEN <<>>
    ELSE gapAt(graphData[i - 1].time, graphData[i].time)
         \o gapsFrom(graphData, i + 1)

\* processModeZones, lines 94-122: the zones from index i on, the current
\* zone having begun at startIndex (zones carry 0-based indexes)
RECURSIVE zonesFrom(_, _, _)
zonesFrom(graphData, i, startIndex) ==
    IF i > Len(graphData)
    THEN <<[start |-> startIndex - 1, end |-> Len(graphData) - 1,
            mode |-> graphData[startIndex].mode]>>
    ELSE IF graphData[i].mode # graphData[i - 1].mode
    THEN <<[start |-> startIndex - 1, end |-> i - 2,
            mode |-> graphData[startIndex].mode]>>
         \o zonesFrom(graphData, i + 1, i)
    ELSE zonesFrom(graphData, i + 1, startIndex)

processModeZones(graphData) ==
    IF graphData = <<>> THEN <<>> ELSE zonesFrom(graphData, 2, 1)

\* fetchData, lines 138-141: the sum of a power over the points, in watts
RECURSIVE sumOf(_, _)
sumOf(graphData, power) ==
    IF graphData = <<>> THEN 0
    ELSE Head(graphData)[power] + sumOf(Tail(graphData), power)

\* fetchData, lines 142-147: the points in a mode
pointsIn(graphData, mode) ==
    Cardinality({i \in DOMAIN graphData : graphData[i].mode = mode})

\* Number(hours.toFixed(2)) of k intervals of 5/60 hour, in hundredths
hoursFixed(k) == (50 * k + 3) \div 6

\* fetchData, lines 151-161
expectedOf(isToday, minutesSinceMidnight) ==
    IF isToday THEN minutesSinceMidnight \div 5 ELSE 288

\* the page before its first fetchData (the useState initial values)
NoPage ==
    [date |-> NULL, data |-> <<>>, total |-> 0, loadTotal |-> 0,
     modeZones |-> <<>>, lastUpdated |-> 0, loadSheddingHours |-> 0,
     cutOffHours |-> 0, missingDataHours |-> 0, expectedDataPoints |-> 288,
     missingDataGaps |-> <<>>, isError |-> ""]

\* fetchData, lines 129-200: the page after a successful answer at minute t
\* (kWh and hours in hundredths)
fetched(date, graphData, expected, t) ==
    [date |-> date,
     data |-> graphData,
     total |-> MathRound(sumOf(graphData, "pv_power"), 120),
     loadTotal |-> MathRound(sumOf(graphData, "load_power"), 120),
     modeZones |-> processModeZones(graphData),
     lastUpdated |-> t,
     loadSheddingHours |-> hoursFixed(pointsIn(graphData, "Battery Mode")),
     cutOffHours |-> hoursFixed(pointsIn(graphData, "Standby Mode")),
     missingDataHours |-> hoursFixed(Max(0, expected - Len(graphData))),
     expectedDataPoints |-> expected,
     missingDataGaps |-> IF Len(graphData) > 1 THEN gapsFrom(graphData, 2)
                         ELSE <<>>,
     isError |-> ""]

\* fetchData(date) of a page pg at minute t
fetchData(pg, date, response, isToday, minutesSinceMidnight, t) ==
    IF response.kind = "ok"
    THEN [fetched(date, response.graph,
                  expectedOf(isToday, minutesSinceMidnight), t)
          EXCEPT !.isError = pg.isError]
    ELSE IF response.kind = "fail"
    THEN [pg EXCEPT !.date = date, !.isError = "Unknown error",
                    !.data = <<>>, !.total = 0, !.loadTotal = 0,
                    !.modeZones = <<>>, !.missingDataHours = 0]
    ELSE [pg EXCEPT !.date = date, !.isError = "message"]

\* sendDailySummary: the fan-out of the summary, inside its own try/catch
sendDailySummary(luck) == tryCatch(dispatch(luck))

----------------------------------------------------------------------------
\* Handlers

Kinds == {"systemReset", "loadShedding", "gridFeedDisabled", "systemOffline"}

Count(alerts, k) == Cardinality({i \in DOMAIN alerts : alerts[i] = k})

\* the part of the state that says which conditions are active
flagsOf(st) ==
    [systemResetDetected |-> st.systemResetDetected,
     isLoadShedding |-> st.isLoadShedding,
     systemOnline |-> st.systemOnline,
     lastKnownOutputPriority |-> st.lastKnownOutputPriority,
     gridFeedingEnabled |-> st.gridFeedingEnabled,
     gridFeedAlerted |-> st.lastGridFeedCheck # NULL]

\* the log after a run that dispatched `alerts` at minute t
noteAlerts(log, alerts, t) ==
    [k \in Kinds |-> IF Count(alerts, k) > 0 THEN <<log[k][2], t>> ELSE log[k]]

\* the grid voltages of the documented load-shedding scenario, one per pass
Scenario == <<230, 230, 0, 0, 170, 170>>

\* the trail after a pass that read `data` and dispatched `alerts`
noteTrail(tr, data, alerts) ==
    IF /\ tr.on /\ data.success
       /\ Len(tr.alerts) < Len(Scenario)
       /\ data.gridVoltage = Scenario[Len(tr.alerts) + 1]
    THEN [on |-> TRUE, alerts |-> Append(tr.alerts, Count(alerts, "loadShedding"))]
    ELSE [on |-> FALSE, alerts |-> <<>>]

\* no device reading: getGridFeedStatus was not called
NotRead == [kind |-> "notread", feed |-> 0, pv1 |-> 0, pv2 |-> 0]

\* The WatchPowerAPI client (watchpower-api.ts) as a process. A call of
\* getDailyData or getDeviceLastData runs until an await of the upstream and
\* resumes when the upstream has answered; pc is where it stands: "ensure"
\* (about to run ensureLoggedIn), "request" (awaiting the data request),
\* "returned" or "thrown". token says whether token and secret are both
\* cached, expired whether the expire time is set and has passed, cycles
\* how often this call has logged in again and called itself.

\* What the upstream answers to a data request, besides ThrowingDaily,
\* NoRecord and DailyData: HTTP 401, or an error whose description says that
\* no data is available
Unauthorized == [kind |-> "401", rows |-> <<>>]

NoDataError == [kind |-> "nodata", rows |-> <<>>]

\* What the upstream answers to authSource: err 0 with token and secret,
\* err 0 without them, or anything else
LoginAnswers == {"tokens", "blank", "refused"}

NoCall ==
    [fn |-> "none", date |-> NULL, pc |-> "idle", token |-> FALSE,
     expired |-> FALSE, cycles |-> 0, value |-> ThrowingDaily, error |-> ""]

\* isLoggedIn, lines 144-168: an expired token is cleared
isLoggedIn(a) ==
    IF ~a.token THEN [ok |-> FALSE, api |-> a]
    ELSE IF a.expired
    THEN [ok |-> FALSE, api |-> [a EXCEPT !.token = FALSE, !.expired = FALSE]]
    ELSE [ok |-> TRUE, api |-> a]

\* login, lines 69-112: true when the upstream answered err 0
login(a, answer) ==
    IF answer = "tokens"
    THEN [ok |-> TRUE, api |-> [a EXCEPT !.token = TRUE, !.expired = FALSE]]
    ELSE IF answer = "blank"
    THEN [ok |-> TRUE, api |-> [a EXCEPT !.token = FALSE, !.expired = FALSE]]
    ELSE [ok |-> FALSE, api |-> a]

\* ensureLoggedIn, lines 173-180: ok is false when it throws
ensureLoggedIn(a, answer) ==
    IF isLoggedIn(a).ok THEN [ok |-> TRUE, api |-> a]
    ELSE login(isLoggedIn(a).api, answer)

thrown(a, message) ==
    [a EXCEPT !.pc = "thrown", !.value = ThrowingDaily, !.error = message]

\* getDailyData lines 187-191, getDeviceLastData lines 267-271: the call (or
\* its call of itself) begins
entered(a, answer) ==
    LET e == ensureLoggedIn(a, answer)
    IN IF ~e.ok THEN thrown(e.api, "Failed to authenticate with WatchPower API")
       ELSE IF ~e.api.token
       THEN thrown(e.api, "Not logged in to WatchPower API")
       ELSE [e.api EXCEPT !.pc = "request"]

\* does the catch of lines 219-229 (299-309) take the answer for an
\* authentication error?
isAuthenticationError(answer) == answer.kind = "401"

\* lines 223-227 (303-307): token and secret are dropped, ensureLoggedIn
\* logs in, and the function calls itself (cycles stops counting at
\* MaxCycles)
retried(a, loginAnswer) ==
    LET e == ensureLoggedIn([a EXCEPT !.token = FALSE], loginAnswer)
    IN IF ~e.ok
       THEN thrown(e.api, "Failed to authenticate with WatchPower API")
       ELSE [e.api EXCEPT !.pc = "ensure",
                          !.cycles = IF @ < MaxCycles THEN @ + 1 ELSE @]

\* lines 193-229 (273-309): the upstream has answered the data request
answered(a, answer, loginAnswer) ==
    IF isAuthenticationError(answer) THEN retried(a, loginAnswer)
    ELSE IF answer.kind = "nodata"
    THEN thrown(a, "API Error: No data available")
    ELSE IF getDailyData(answer).kind = "throw"
    THEN thrown(a, "API Error")
    ELSE [a EXCEPT !.pc = "returned", !.value = getDailyData(answer)]

\* a call of fn begins
called(a, fn, date) ==
    [a EXCEPT !.fn = fn, !.date = date, !.pc = "ensure", !.cycles = 0,
              !.value = ThrowingDaily, !.error = ""]

\* GET /api/stats-range as a process: the body of the stream's start()
\* runs until it awaits api.getDailyData and resumes when that call has
\* returned or thrown. pc is "idle", "fetching" (awaiting the call for the
\* date `current`, in attempt number `attempt` of retryWithBackoff) or
\* "closed"; records are the lines enqueued so far.

\* lines 162-170: a progress line (null is NULL, no error is "")
Progress(day, error, totalProdWh, totalLoadWh) ==
    [date |-> day.date,
     production_kwh |-> day.production_kwh,
     load_kwh |-> day.load_kwh,
     error |-> error,
     total_production_kwh |-> MathRound(totalProdWh, 120),
     total_load_kwh |-> MathRound(totalLoadWh, 120)]

\* lines 71-79: the line of a range that runs backwards
RangeError ==
    [date |-> NULL, production_kwh |-> NULL, load_kwh |-> NULL,
     error |-> "from_date must be <= to_date",
     total_production_kwh |-> 0, total_load_kwh |-> 0]

\* lines 112-129 and 139-140: what the day adds to totalProdWh and
\* totalLoadWh
dayTotals(dateStr, data) ==
    IF rangeDay(dateStr, data).production_kwh = NULL THEN ZeroTotals
    ELSE accumulate(rowsOf(data.rows), dateStr, 1, lengthOf(data.rows))

maxRetries == 3

\* retryWithBackoff, lines 17-33: is the error thrown on, not retried?
givesUp(message, attempt) ==
    \/ message = "API Error: No data available"
    \/ attempt = maxRetries - 1

\* lines 160-175: the day's line is enqueued and the loop goes on to the
\* next date, or closes the stream after the last one
pushed(r, day, error, totals) ==
    LET totalProdWh == r.totalProdWh + totals.totalProductionWh
        totalLoadWh == r.totalLoadWh + totals.totalLoadWh
    IN [r EXCEPT !.records =
                     Append(@, Progress(day, error, totalProdWh, totalLoadWh)),
                 !.totalProdWh = totalProdWh,
                 !.totalLoadWh = totalLoadWh,
                 !.current = @ + 1,
                 !.attempt = 0,
                 !.pc = IF r.current + 1 > r.to THEN "closed" ELSE "fetching"]

\* lines 95-158: api.getDailyData has returned or thrown (a is the client
\* at that point)
taken(r, a) ==
    IF a.pc = "returned"
    THEN pushed(r, rangeDay(r.current, a.value), "",
                dayTotals(r.current, a.value))
    ELSE IF givesUp(a.error, r.attempt)
    THEN pushed(r, nullDay(r.current), a.error, ZeroTotals)
    ELSE [r EXCEPT !.attempt = @ + 1]

\* lines 63-88: the stream starts
started(from, to) ==
    IF from > to
    THEN [pc |-> "closed", from |-> from, to |-> to, current |-> from,
          attempt |-> 0, records |-> <<RangeError>>,
          totalProdWh |-> 0, totalLoadWh |-> 0]
    ELSE [pc |-> "fetching", from |-> from, to |-> to, current |-> from,
          attempt |-> 0, records |-> <<>>,
          totalProdWh |-> 0, totalLoadWh |-> 0]

\* GET /api/stats-range before any request
NoStream ==
    [pc |-> "idle", from |-> NULL, to |-> NULL, current |-> NULL,
     attempt |-> 0, records |-> <<>>, totalProdWh |-> 0, totalLoadWh |-> 0]

\* The cron endpoints. An Authorization header is held as the pair of its
\* scheme (with the blank after it) and its credentials, no header as <<>>;
\* process.env.CRON_SECRET is a text, or Undefined when the variable is not
\* set.
NoHeader == <<>>

Undefined == "<not set>"

ConfiguredSecret == "s3cret"

\* `${value}` in a template literal
templated(value) == IF value = Undefined THEN "undefined" ELSE value

\* cron/monitor/route.ts line 16, cron/daily-summary line 16:
\* authHeader !== `Bearer ${cronSecret}` is false
authorized(authHeader, cronSecret) ==
    authHeader = <<"Bearer ", templated(cronSecret)>>

\* the cron endpoints before any request
NoRequest == [route |-> "none", authorization |-> NoHeader, status |-> 0]

Responded(route, authHeader, status) ==
    [route |-> route, authorization |-> authHeader, status |-> status]

NoRun == [op |-> "none", outputPriority |-> "Unknown", gridVoltage |-> 0,
          success |-> FALSE, feed |-> "none",
          delivery |-> NoDispatch, escaped |-> {}, device |-> NotRead,
          written |-> FALSE]

\* before any getDailyStats call
NoDaily ==
    [date |-> NULL, data |-> ThrowingDaily, summary |-> NoSummary,
     range |-> NoRange, again |-> NoSummary]

SettingsFiles ==
    {<<>>} \cup {[k \in {GRID_KEY} |-> b] : b \in BOOLEAN}

\* the service right after its constructor ran, with the settings file, the
\* local time of day and the environment drawn from the given sets
InitEnv(S, B, E) ==
    /\ state = constructorState
    /\ settings \in S
    /\ now = 0
    /\ bootMinute \in B
    /\ initDone = FALSE
    /\ sent = <<>>
    /\ last = NoRun
    /\ prev = flagsOf(constructorState)
    /\ alertLog = [k \in Kinds |-> <<NULL, NULL>>]
    /\ calls = {}
    /\ trail = [on |-> TRUE, alerts |-> <<>>]
    /\ daily = NoDaily
    /\ page = NoPage
    /\ api = NoCall
    /\ ranged = NoStream
    /\ http = NoRequest
    /\ env \in E

\* the same, deployed with CRON_SECRET set
InitWith(S, B) == InitEnv(S, B, {[CRON_SECRET |-> ConfiguredSecret]})

\* the constructor's un-awaited initializeGridFeedStatus() resolves
InitializeGridFeedStatus ==
    /\ ~initDone
    /\ initDone' = TRUE
    /\ LET savedStatus == storageGet(settings, GRID_KEY, TRUE)
       IN state' = [state EXCEPT !.gridFeedingEnabled = savedStatus,
                                 !.previousGridFeedStatus = savedStatus]
    /\ UNCHANGED <<settings, now, bootMinute, sent, last, prev, alertLog, calls,
                   trail, daily, page, api, ranged, http, env>>

\* the effects of a pass that returned r, on the monitor and on the history
Ran(r, device, luck) ==
    /\ state' = r.state
    /\ settings' = r.settings
    /\ sent' = r.alerts
    /\ alertLog' = noteAlerts(alertLog, r.alerts, now')
    /\ last' = [op |-> "runAllChecks",
                outputPriority |-> r.data.outputPriority,
                gridVoltage |-> r.data.gridVoltage,
                success |-> r.data.success,
                feed |-> IF r.feed # "none" THEN r.feed ELSE last.feed,
                delivery |-> IF r.alerts # <<>> THEN dispatch(luck)
                             ELSE NoDispatch,
                escaped |-> r.escaped,
                device |-> IF r.feed # "none" THEN device ELSE NotRead,
                written |-> r.written]
    /\ trail' = noteTrail(trail, r.data, r.alerts)

\* await monitoringService.runAllChecks() in a handler, dt minutes after the
\* last run
monitorRun(dt, fetch, device, writeOk, luck) ==
    /\ calls = {}
    /\ now' = now + dt
    /\ Ran(runAllChecks(state, settings, fetch, device, writeOk,
                        bootMinute, now', luck), device, luck)
    /\ prev' = flagsOf(state)
    /\ UNCHANGED <<bootMinute, initDone, calls, daily, page, api, ranged,
                   env>>

\* GET /api/cron/monitor as the scheduler calls it: one runAllChecks pass
RunAllChecks(dt, fetch, device, writeOk, luck) ==
    /\ monitorRun(dt, fetch, device, writeOk, luck)
    /\ UNCHANGED http

\* GET /api/system/check-reset: a fetch, then checkSystemReset when the
\* priority is known and differs from the expected one
CheckResetRoute(dt, fetch, luck) ==
    /\ calls = {}
    /\ now' = now + dt
    /\ LET got == getCurrentSystemData(state, fetch, now')
           resetDetected ==
               /\ got.data.outputPriority # EXPECTED_OUTPUT_PRIORITY
               /\ got.data.outputPriority # "Unknown"
           r == IF resetDetected
                THEN checkSystemReset(got.state, got.data.outputPriority, now',
                                      luck)
                ELSE Out(got.state, <<>>)
       IN /\ state' = r.state
          /\ sent' = r.alerts
          /\ alertLog' = noteAlerts(alertLog, r.alerts, now')
          /\ last' = [op |-> "checkReset",
                      outputPriority |-> got.data.outputPriority,
                      gridVoltage |-> got.data.gridVoltage,
                      success |-> got.data.success,
                      feed |-> last.feed,
                      delivery |-> IF r.alerts # <<>> THEN dispatch(luck)
                                   ELSE NoDispatch,
                      escaped |-> IF r.threw THEN {"checkSystemReset"}
                                  ELSE {},
                      device |-> NotRead, written |-> FALSE]
    /\ prev' = flagsOf(state)
    /\ UNCHANGED <<settings, bootMinute, initDone, calls,
                   trail, daily, page, api, ranged, http, env>>

\* GET /api/health and GET /api/control/output-priority: a fetch only
HealthRoute(dt, fetch) ==
    /\ calls = {}
    /\ now' = now + dt
    /\ LET got == getCurrentSystemData(state, fetch, now')
       IN /\ state' = got.state
          /\ sent' = <<>>
          /\ last' = [op |-> "health",
                      outputPriority |-> got.data.outputPriority,
                      gridVoltage |-> got.data.gridVoltage,
                      success |-> got.data.success,
                      feed |-> last.feed,
                      delivery |-> NoDispatch, escaped |-> {},
                      device |-> NotRead, written |-> FALSE]
    /\ prev' = flagsOf(state)
    /\ UNCHANGED <<settings, bootMinute, initDone, alertLog, calls,
                   trail, daily, page, api, ranged, http, env>>

\* the record of a getDailyStats call; `again` is the summary of the call
\* before it when that one was for the same date and got the same answer
\* from the upstream
calledWith(dateStr, data, summary) ==
    [date |-> dateStr, data |-> data, summary |-> summary, range |-> NoRange,
     again |-> IF daily.date = dateStr /\ daily.data = data
               THEN daily.summary ELSE NoSummary]

\* getDailyStats(dateStr) called directly, dt minutes after the last run
GetDailyStats(dt, dateStr, data) ==
    /\ calls = {}
    /\ now' = now + dt
    /\ daily' = calledWith(dateStr, data,
                           getDailyStats(dateStr, data, now').value)
    /\ UNCHANGED <<state, settings, bootMinute, initDone, sent, last, prev,
                   alertLog, calls, trail, page, api, ranged, http, env>>

\* GET /api/stats-range?from_date=dateStr&to_date=dateStr, dt minutes after
\* the last run: the entry it streams for that day
StatsRangeRoute(dt, dateStr, data) ==
    /\ calls = {}
    /\ now' = now + dt
    /\ daily' = [date |-> dateStr, data |-> data, summary |-> NoSummary,
                 range |-> dailyData(dateStr, data), again |-> NoSummary]
    /\ UNCHANGED <<state, settings, bootMinute, initDone, sent, last, prev,
                   alertLog, calls, trail, page, api, ranged, http, env>>

\* the page calls fetchData(date), dt minutes after the last step
FetchData(dt, date, response) ==
    /\ now' = now + dt
    /\ page' = fetchData(page, date, response,
                         date = dayOf(bootMinute, now'),
                         minuteOfDay(bootMinute, now'), now')
    /\ UNCHANGED <<state, settings, bootMinute, initDone, sent, last, prev,
                   alertLog, calls, trail, daily, api, ranged, http, env>>

\* the effects of a daily-summary request on the history
Summarised(dateStr, data, summary, d) ==
    /\ last' = [op |-> "dailySummary",
                outputPriority |-> "Unknown",
                gridVoltage |-> 0,
                success |-> FALSE,
                feed |-> last.feed,
                delivery |-> d,
                escaped |-> (IF summary.threw THEN {"getDailyStats"} ELSE {})
                            \cup
                            (IF d.threw THEN {"sendDailySummary"} ELSE {}),
                device |-> NotRead, written |-> FALSE]
    /\ daily' = calledWith(dateStr, data, summary.value)

\* the request once getDailyStats has completed
summarySent(dateStr, data, summary, luck) ==
    Summarised(dateStr, data, summary,
               IF ~summary.threw /\ summary.value # NoSummary
               THEN sendDailySummary(luck)
               ELSE NoDispatch)

\* GET /api/cron/daily-summary and /api/notifications/test-daily-summary:
\* getDailyStats of yesterday, then sendDailySummary unless the summary is
\* null
summaryRun(dt, data, luck) ==
    /\ calls = {}
    /\ now' = now + dt
    /\ summarySent(dayOf(bootMinute, now') - 1, data,
                   getDailyStats(dayOf(bootMinute, now') - 1, data, now'),
                   luck)
    /\ sent' = <<>>
    /\ prev' = flagsOf(state)
    /\ UNCHANGED <<state, settings, bootMinute, initDone, alertLog, calls,
                   trail, page, api, ranged, env>>

\* the same as the scheduler (or the test route) calls it
DailySummaryRoute(dt, data, luck) ==
    /\ summaryRun(dt, data, luck)
    /\ UNCHANGED http

\* one cron pass with its inputs drawn from the given sets (inputs: triples
\* of a fetch, a device reading and the settings write's luck; lucks: the
\* channels' luck)
PassWith(T, horizon, inputs, lucks) ==
    \E dt \in T, in \in inputs, luck \in lucks :
        /\ now + dt <= horizon
        /\ RunAllChecks(dt, in[1], in[2], in[3], luck)

\* one cron pass whose notifications all go through
Pass(T, horizon, inputs) == PassWith(T, horizon, inputs, {AllDelivered})

ResetRouteWith(T, horizon, F, lucks) ==
    \E dt \in T, fetch \in F, luck \in lucks :
        /\ now + dt <= horizon
        /\ CheckResetRoute(dt, fetch, luck)

ResetRoute(T, horizon, F) == ResetRouteWith(T, horizon, F, {AllDelivered})

Health(T, horizon, F) ==
    \E dt \in T, fetch \in F :
        /\ now + dt <= horizon
        /\ HealthRoute(dt, fetch)

DailySummary(T, horizon, D, lucks) ==
    \E dt \in T, data \in D, luck \in lucks :
        /\ now + dt <= horizon
        /\ DailySummaryRoute(dt, data, luck)

\* The other variables while the client or the range stream takes a step
ClientFrame ==
    UNCHANGED <<state, settings, now, bootMinute, initDone, sent, last, prev,
                alertLog, calls, trail, daily, page, http, env>>

\* api.getDailyData(date) or api.getDeviceLastData() is called while no call
\* is in progress
ApiCall(fn, date) ==
    /\ api.pc \in {"idle", "returned", "thrown"}
    /\ ranged.pc # "fetching"
    /\ api' = called(api, fn, date)
    /\ UNCHANGED ranged
    /\ ClientFrame

\* the call in progress runs ensureLoggedIn (the upstream answering the
\* login, if one is made)
EnsureLoggedIn(loginAnswer) ==
    /\ api.pc = "ensure"
    /\ api' = entered(api, loginAnswer)
    /\ UNCHANGED ranged
    /\ ClientFrame

\* the upstream answers the data request of the call in progress
Answered(answer, loginAnswer) ==
    /\ api.pc = "request"
    /\ api' = answered(api, answer, loginAnswer)
    /\ UNCHANGED ranged
    /\ ClientFrame

\* the expire time of the cached token passes
TokenExpires ==
    /\ api.token /\ ~api.expired
    /\ api' = [api EXCEPT !.expired = TRUE]
    /\ UNCHANGED ranged
    /\ ClientFrame

\* GET /api/stats-range?from_date=from&to_date=to: the stream starts and
\* calls api.getDailyData for the first date
StatsRangeStart(from, to) ==
    /\ ranged.pc \in {"idle", "closed"}
    /\ api.pc \in {"idle", "returned", "thrown"}
    /\ ranged' = started(from, to)
    /\ api' = IF started(from, to).pc = "fetching"
              THEN called(api, "getDailyData", from)
              ELSE api
    /\ ClientFrame

\* the awaited api.getDailyData has returned or thrown: the stream retries
\* it, or enqueues the day's line and goes on
StatsRangeResume ==
    /\ ranged.pc = "fetching"
    /\ api.pc \in {"returned", "thrown"}
    /\ ranged' = taken(ranged, api)
    /\ api' = IF taken(ranged, api).pc = "fetching"
              THEN called(api, "getDailyData", taken(ranged, api).current)
              ELSE api
    /\ ClientFrame

\* a request the gate of a cron endpoint turns away, dt minutes after the
\* last run: 401, and the handler returns
Unauthorized401(route, authHeader, dt) ==
    /\ calls = {}
    /\ now' = now + dt
    /\ http' = Responded(route, authHeader, 401)
    /\ sent' = <<>>
    /\ UNCHANGED <<state, settings, bootMinute, initDone, last, prev, alertLog,
                   calls, trail, daily, page, api, ranged, env>>

\* GET /api/cron/monitor with the given Authorization header
CronMonitor(authHeader, dt, fetch, device, writeOk, luck) ==
    IF ~authorized(authHeader, env.CRON_SECRET)
    THEN Unauthorized401("/api/cron/monitor", authHeader, dt)
    ELSE /\ monitorRun(dt, fetch, device, writeOk, luck)
         /\ http' = Responded("/api/cron/monitor", authHeader, 200)

\* GET /api/cron/daily-summary with the given Authorization header: 500 when
\* getDailyStats gave no summary
CronDailySummary(authHeader, dt, data, luck) ==
    IF ~authorized(authHeader, env.CRON_SECRET)
    THEN Unauthorized401("/api/cron/daily-summary", authHeader, dt)
    ELSE /\ summaryRun(dt, data, luck)
         /\ http' = Responded("/api/cron/daily-summary", authHeader,
                              IF daily'.summary = NoSummary THEN 500
                              ELSE 200)

Init == InitWith(SettingsFiles, BootMinutes)
InitDay == InitWith({<<>>}, {420})

----------------------------------------------------------------------------
\* Specifications: the same handlers, each with the inputs of one monitor
\* varied over the hour and the others held steady.

SteadyVolts == <<230, 0>>
FeedingDevice == DataDevice(<<50, 501, 0>>)

\* the reset monitor: every priority, failed fetches, both reset callers
Throws == [kind |-> "throw", f38 |-> "", f6 |-> 0, f8 |-> 0]

ResetFetches == {Throws} \cup {RowFetch(p, SteadyVolts) : p \in Priorities}

RouteFetches ==
    {RowFetch(p, SteadyVolts) : p \in {EXPECTED_OUTPUT_PRIORITY, "Solar First"}}

NextReset ==
    \/ InitializeGridFeedStatus
    \/ Pass(Deltas, MaxNow, ResetFetches \X {FeedingDevice} \X {TRUE})
    \/ ResetRoute(Deltas, MaxNow, RouteFetches)

SpecReset == InitDay /\ [][NextReset]_vars

\* the grid-feed monitor: every device reading, failed fetches and writes
SteadyFetch == RowFetch(EXPECTED_OUTPUT_PRIORITY, SteadyVolts)
NotFeedingDevice == DataDevice(<<0, 501, 0>>)

FeedDevices ==
    FailedDevices \cup
    {FeedingDevice, NotFeedingDevice, DataDevice(<<0, 300, 200>>)}

FeedInputs ==
    {<<Throws, FeedingDevice, TRUE>>}
    \cup ({SteadyFetch} \X FeedDevices \X {TRUE})
    \cup ({SteadyFetch} \X {FeedingDevice, NotFeedingDevice} \X {FALSE})

NextFeed ==
    \/ InitializeGridFeedStatus
    \/ Pass(Deltas, MaxNow, FeedInputs)

SpecFeed == Init /\ [][NextFeed]_vars

\* the resolution of the grid-feed status: every device reading, by day and
\* by night, over every settings file, with writes that fail
BeliefInputs ==
    {<<Throws, FeedingDevice, TRUE>>}
    \cup ({SteadyFetch} \X Devices \X BOOLEAN)

NextBelief ==
    \/ InitializeGridFeedStatus
    \/ Pass(Deltas, MaxBeliefNow, BeliefInputs)

SpecBelief == Init /\ [][NextBelief]_vars

\* the offline monitor: failed and successful fetches from every caller,
\* with the other monitors' conditions coming and going
OfflineInputs ==
    (FailedFetches \X {FeedingDevice} \X {TRUE}) \cup
    {<<RowFetch(EXPECTED_OUTPUT_PRIORITY, SteadyVolts), FeedingDevice, TRUE>>,
     <<RowFetch("Utility Solar Bat", <<170, 0>>), NotFeedingDevice, TRUE>>}

NextOffline ==
    \/ InitializeGridFeedStatus
    \/ Pass(Deltas, MaxNow, OfflineInputs)
    \/ Health(Deltas, MaxNow,
              FailedFetches \cup {RowFetch(EXPECTED_OUTPUT_PRIORITY, SteadyVolts)})

SpecOffline == InitDay /\ [][NextOffline]_vars

\* the load-shedding monitor: every voltage reading
ShedFetches ==
    FailedFetches \cup
    {RowFetch(EXPECTED_OUTPUT_PRIORITY, v) : v \in Voltages}

NextShed ==
    \/ InitializeGridFeedStatus
    \/ Pass(ShedDeltas, MaxShedNow, ShedFetches \X {FeedingDevice} \X {TRUE})

SpecShed == InitDay /\ [][NextShed]_vars

\* partial readings: rows in which the priority field, the voltage fields,
\* both or neither resolved
PartialFetches ==
    {RowFetch(p, v) : p \in {"", EXPECTED_OUTPUT_PRIORITY, "Utility Solar Bat"},
                      v \in {<<0, 0>>, <<170, 0>>, <<230, 0>>}}

NextPartial ==
    \/ InitializeGridFeedStatus
    \/ Pass(Deltas, MaxNow, PartialFetches \X {FeedingDevice} \X {TRUE})

SpecPartial == InitDay /\ [][NextPartial]_vars

\* the collaborators failing: the fetch, the device read, the settings file
\* (missing at first, and its write), and the channels
Deviating == RowFetch("Utility Solar Bat", <<170, 0>>)

FaultInputs ==
    (FailedFetches \X {FeedingDevice} \X {TRUE}) \cup
    ({SteadyFetch} \X (FailedDevices \cup {FeedingDevice}) \X {TRUE}) \cup
    ({Deviating} \X {NotFeedingDevice} \X BOOLEAN)

FaultDailies ==
    {ThrowingDaily, DailyData(<<>>),
     DailyData(<<Run(Row(48, 0, 1200, 900, "Line Mode"), 1)>>)}

FaultLucks ==
    {AllDelivered,
     [c \in ChannelSet |-> FALSE],
     [c \in ChannelSet |-> c # "email"],
     [c \in ChannelSet |-> c = "email"]}

NextFaults ==
    \/ InitializeGridFeedStatus
    \/ PassWith(FaultDeltas, MaxFaultNow, FaultInputs, FaultLucks)
    \/ ResetRouteWith(FaultDeltas, MaxFaultNow,
                      {RowFetch("Solar First", SteadyVolts)}, FaultLucks)
    \/ DailySummary(FaultDeltas, MaxFaultNow, FaultDailies, FaultLucks)

SpecFaults == InitDay /\ [][NextFaults]_vars

\* the daily statistics: getDailyStats called for yesterday, today and
\* tomorrow over rows of that date and of the dates next to it
LineRow(d) == Row(48, d, 1200, 900, "Line Mode")
BatteryRow(d) == Row(48, d, 0, 900, "Battery Mode")
StandbyRow(d) == Row(48, d, 0, 0, "Standby Mode")
SmallRow(d) == Row(48, d, 50, 70, "Line Mode")
NoModeRow(d) == Row(30, d, 1200, 900, "")
ShortRow(d) == Row(10, d, 1200, 900, "")
BlankRow == Row(48, NULL, 1200, 900, "Line Mode")

DailySeries(d) ==
    {<<>>,
     <<Run(LineRow(d), 280)>>,
     <<Run(LineRow(d - 1), 8), Run(LineRow(d), 280), Run(LineRow(d + 1), 1)>>,
     <<Run(LineRow(d), 280), Run(BatteryRow(d), 8)>>,
     <<Run(LineRow(d), 280), Run(BatteryRow(d), 8), Run(StandbyRow(d), 1)>>,
     <<Run(SmallRow(d), 1)>>,
     <<Run(SmallRow(d), 1), Run(ShortRow(d), 8), Run(BlankRow, 1)>>,
     <<Run(BatteryRow(d), 24), Run(StandbyRow(d), 12), Run(NoModeRow(d), 1)>>,
     <<Run(LineRow(d + 1), 8), Run(ShortRow(d), 8)>>}

DailyResponses(d) ==
    {ThrowingDaily, NoRecord} \cup {DailyData(runs) : runs \in DailySeries(d)}

DailyInputs(today) ==
    UNION {{<<d, data>> : data \in DailyResponses(d)} :
           d \in {today - 1, today, today + 1}}

Stats(T, horizon) ==
    \E dt \in T :
        /\ now + dt <= horizon
        /\ \E in \in DailyInputs(dayOf(bootMinute, now + dt)) :
              GetDailyStats(dt, in[1], in[2])

StatsRange(T, horizon) ==
    \E dt \in T :
        /\ now + dt <= horizon
        /\ \E in \in DailyInputs(dayOf(bootMinute, now + dt)) :
              StatsRangeRoute(dt, in[1], in[2])

YesterdaySummary(T, horizon) ==
    \E dt \in T :
        /\ now + dt <= horizon
        /\ \E data \in DailyResponses(dayOf(bootMinute, now + dt) - 1) :
              DailySummaryRoute(dt, data, AllDelivered)

NextDaily ==
    \/ Stats(DailyDeltas, MaxDailyNow)
    \/ StatsRange(DailyDeltas, MaxDailyNow)
    \/ YesterdaySummary(DailyDeltas, MaxDailyNow)

SpecDaily == InitWith({<<>>}, BootMinutes) /\ [][NextDaily]_vars

\* the statistics page: fetchData for yesterday and today over graphs with
\* and without gaps
Graphs ==
    {<<>>,
     <<Point(7, 0, 10, 1200, 900, "Line Mode")>>,
     <<Point(0, 0, 10, 0, 300, "Line Mode"),
       Point(0, 5, 10, 0, 300, "Line Mode"),
       Point(0, 10, 10, 0, 300, "Battery Mode")>>,
     <<Point(7, 0, 5, 1200, 900, "Line Mode"),
       Point(7, 5, 55, 1200, 900, "Line Mode"),
       Point(7, 11, 2, 1200, 900, "Battery Mode"),
       Point(7, 18, 0, 0, 900, "Battery Mode"),
       Point(7, 40, 30, 0, 0, "Standby Mode")>>,
     <<Point(6, 55, 0, 50, 70, "Line Mode"),
       Point(7, 0, 0, 50, 70, "Line Mode"),
       Point(7, 30, 0, 50, 70, "Standby Mode"),
       Point(7, 35, 0, 50, 70, "Line Mode"),
       Point(8, 35, 0, 50, 70, "Line Mode")>>,
     <<Point(7, 0, 0, 1200, 900, "Line Mode"),
       Point(7, 0, 0, 1200, 900, "Line Mode"),
       Point(7, 6, 59, 1200, 900, "Line Mode"),
       Point(7, 13, 0, 1200, 900, "Line Mode")>>}

PageResponses == {Unsuccessful, FailedRequest} \cup {GraphOf(g) : g \in Graphs}

PageFetches(T, horizon) ==
    \E dt \in T, response \in PageResponses :
        /\ now + dt <= horizon
        /\ \E date \in {dayOf(bootMinute, now + dt) - 1,
                         dayOf(bootMinute, now + dt)} :
              FetchData(dt, date, response)

NextPage == PageFetches(PageDeltas, MaxPageNow)

SpecPage == InitWith({<<>>}, BootMinutes) /\ [][NextPage]_vars

\* the client: every upstream answer to the login and to the data request,
\* for both calls
ApiDates == {1, 2}

DataAnswers(d) == {Unauthorized, NoDataError} \cup DailyResponses(d)

ApiCalls ==
    \/ \E date \in ApiDates : ApiCall("getDailyData", date)
    \/ ApiCall("getDeviceLastData", NULL)

ApiSteps ==
    \/ \E loginAnswer \in LoginAnswers : EnsureLoggedIn(loginAnswer)
    \/ \E answer \in DataAnswers(1), loginAnswer \in LoginAnswers :
          Answered(answer, loginAnswer)

NextApi ==
    \/ ApiCalls
    \/ ApiSteps
    \/ TokenExpires

\* every await of the upstream is answered in the end
SpecApi == InitDay /\ [][NextApi]_vars /\ WF_vars(ApiSteps)

\* the range statistics: every range over the first days, every upstream
\* answer to each request
RangeDates == 1..MaxRangeDays

RangeAnswers(d) ==
    {Unauthorized, NoDataError, ThrowingDaily, NoRecord,
     DailyData(<<Run(LineRow(d), 2)>>),
     DailyData(<<Run(LineRow(d + 1), 1), Run(ShortRow(d), 1)>>)}

RangeSteps ==
    \/ \E loginAnswer \in {"tokens", "refused"} : EnsureLoggedIn(loginAnswer)
    \/ \E answer \in RangeAnswers(api.date), loginAnswer \in {"tokens"} :
          Answered(answer, loginAnswer)
    \/ StatsRangeResume

NextRange ==
    \/ \E from \in RangeDates, to \in RangeDates : StatsRangeStart(from, to)
    \/ RangeSteps

\* every await of the upstream is answered in the end, and the stream
\* resumes when its call has completed
SpecRange == InitDay /\ [][NextRange]_vars /\ WF_vars(RangeSteps)

\* the cron endpoints: requests with and without the secret, to a
\* deployment with and without CRON_SECRET, while the monitors' conditions
\* come and go
CronDeltas == {10}

CronHeaders ==
    {NoHeader,
     <<"Bearer ", ConfiguredSecret>>,
     <<"Bearer ", "undefined">>,
     <<"Bearer ", "guess">>,
     <<"Basic ", ConfiguredSecret>>}

CronEnvs == {[CRON_SECRET |-> v] : v \in {ConfiguredSecret, Undefined}}

CronInputs ==
    {<<Throws, FeedingDevice, TRUE>>,
     <<RowFetch(EXPECTED_OUTPUT_PRIORITY, SteadyVolts), FeedingDevice, TRUE>>,
     <<RowFetch("Utility Solar Bat", <<170, 0>>), NotFeedingDevice, TRUE>>}

NextCron ==
    \/ \E authHeader \in CronHeaders, dt \in CronDeltas, in \in CronInputs :
          /\ now + dt <= MaxCronNow
          /\ CronMonitor(authHeader, dt, in[1], in[2], in[3], AllDelivered)
    \/ \E authHeader \in CronHeaders, dt \in CronDeltas :
          /\ now + dt <= MaxCronNow
          /\ \E data \in {ThrowingDaily, NoRecord,
                          DailyData(<<Run(LineRow(dayOf(bootMinute, now + dt)
                                                  - 1), 2)>>)} :
                CronDailySummary(authHeader, dt, data, AllDelivered)

SpecCron == InitEnv({<<>>}, {420}, CronEnvs) /\ [][NextCron]_vars

----------------------------------------------------------------------------
\* Overlapping passes. runAllChecks is async: it runs until an await of real
\* I/O (the fetch, an alert dispatch, the device read, the settings write)
\* and resumes when that I/O completes, so a second pass started meanwhile
\* interleaves with it at those points. A pass in flight is a record
\* [id, pc, t, data, feed]: pc names the await it is parked at, t is the
\* `now` of the check that is awaiting, data the reading it fetched, feed the
\* status it resolved. A pass that returned stays in `calls` as "done", so
\* that MaxCalls bounds the passes of a run.

NoData == [outputPriority |-> "Unknown", gridVoltage |-> 0, success |-> FALSE]

Parked(c, pc, t, data, feed) ==
    [id |-> c.id, pc |-> pc, t |-> t, data |-> data, feed |-> feed]

\* what a stretch of synchronous code leaves: the state, where the pass parks
\* next ("done" when it returned) and the alerts it started to dispatch
Seg(st, pc, alerts) == [state |-> st, pc |-> pc, alerts |-> alerts]

\* checkSystemOffline up to its await (lines 122-141)
segOffline(st, t) ==
    LET timeSinceLastData == (t - st.lastDataTimestamp) * MsPerMinute
        thresholdMs == config.systemOfflineThresholdMinutes * 60 * 1000
    IN IF timeSinceLastData > thresholdMs /\ st.systemOnline
       THEN Seg([st EXCEPT !.systemOnline = FALSE], "offlineAwait",
                <<"systemOffline">>)
       ELSE Seg(st, "done", <<>>)

\* runAllChecks lines 411-417: checkLoadShedding up to its await, else on to
\* the await of getGridFeedStatus
segShed(st, data, t) ==
    IF data.gridVoltage > 0
    THEN IF loadSheddingShouldSend(st, data.gridVoltage, t)
         THEN Seg(st, "shedAwait", <<"loadShedding">>)
         ELSE Seg(loadSheddingCommit(st, data.gridVoltage, t, FALSE),
                  "feedApi", <<>>)
    ELSE Seg(st, "feedApi", <<>>)

\* runAllChecks lines 405-409: checkSystemReset up to its await, else on
segReset(st, data, t) ==
    IF data.outputPriority # "Unknown"
    THEN IF resetShouldSend(st, data.outputPriority, t)
         THEN Seg(st, "resetAwait", <<"systemReset">>)
         ELSE segShed(resetCommit(st, data.outputPriority, t, FALSE), data, t)
    ELSE segShed(st, data, t)

Returned(c) == [id |-> c.id, pc |-> "done", t |-> 0, data |-> NoData, feed |-> TRUE]

\* the pass c moves on: it parks again or returns
Moved(c, seg, t, data, feed) ==
    /\ state' = seg.state
    /\ sent' = seg.alerts
    /\ alertLog' = noteAlerts(alertLog, seg.alerts, t)
    /\ calls' = (calls \ {c}) \cup
                 {IF seg.pc = "done" THEN Returned(c)
                  ELSE Parked(c, seg.pc, t, data, feed)}

OvTick(dt) ==
    /\ now + dt <= MaxOverlapNow
    /\ now' = now + dt
    /\ UNCHANGED <<state, settings, bootMinute, initDone, sent, last, prev,
                   alertLog, calls,
                   trail, daily, page, api, ranged, http, env>>

\* the cron route calls runAllChecks, which awaits its fetch
OvBegin ==
    /\ Cardinality(calls) < MaxCalls
    /\ calls' = calls \cup
                 {[id |-> Cardinality(calls) + 1, pc |-> "fetch", t |-> 0,
                   data |-> NoData, feed |-> TRUE]}
    /\ UNCHANGED <<state, settings, now, bootMinute, initDone, sent, last,
                   prev, alertLog,
                   trail, daily, page, api, ranged, http, env>>

\* the fetch of pass c completes (lines 403-422 up to the next await)
OvFetched(c, fetch) ==
    /\ c.pc = "fetch"
    /\ LET got == getCurrentSystemData(state, fetch, now)
           seg == IF got.data.success
                  THEN segReset(got.state, got.data, now)
                  ELSE segOffline(got.state, now)
       IN Moved(c, seg, now, got.data, c.feed)
    /\ UNCHANGED <<settings, now, bootMinute, initDone, last, prev,
                   trail, daily, page, api, ranged, http, env>>

\* the reset alert of pass c was dispatched (lines 181-189, then on)
OvResetDispatched(c) ==
    /\ c.pc = "resetAwait"
    /\ LET st == resetCommit(state, c.data.outputPriority, c.t, TRUE)
       IN Moved(c, segShed(st, c.data, now), now, c.data, c.feed)
    /\ UNCHANGED <<settings, now, bootMinute, initDone, last, prev,
                   trail, daily, page, api, ranged, http, env>>

\* the load-shedding alert of pass c was dispatched (lines 222-223, then on)
OvShedDispatched(c) ==
    /\ c.pc = "shedAwait"
    /\ LET st == loadSheddingCommit(state, c.data.gridVoltage, c.t, TRUE)
       IN Moved(c, Seg(st, "feedApi", <<>>), now, c.data, c.feed)
    /\ UNCHANGED <<settings, now, bootMinute, initDone, last, prev,
                   trail, daily, page, api, ranged, http, env>>

\* getGridFeedStatus of pass c returns; checkGridFeed runs up to its await
OvFeedStatus(c, device) ==
    /\ c.pc = "feedApi"
    /\ LET gridFeedEnabled ==
               getGridFeedStatus(device, settings,
                                 currentHourAt(bootMinute, now)).value
           seg == IF gridFeedShouldSend(state, gridFeedEnabled, now)
                  THEN Seg(state, "feedAwait", <<"gridFeedDisabled">>)
                  ELSE Seg(gridFeedCommit(state, gridFeedEnabled, now, FALSE),
                           "feedSave", <<>>)
       IN Moved(c, seg, now, c.data, gridFeedEnabled)
    /\ UNCHANGED <<settings, now, bootMinute, initDone, last, prev,
                   trail, daily, page, api, ranged, http, env>>

\* the grid-feed alert of pass c was dispatched (lines 261/282, 290-291)
OvFeedDispatched(c) ==
    /\ c.pc = "feedAwait"
    /\ Moved(c, Seg(gridFeedCommit(state, c.feed, c.t, TRUE), "feedSave", <<>>),
             c.t, c.data, c.feed)
    /\ UNCHANGED <<settings, now, bootMinute, initDone, last, prev,
                   trail, daily, page, api, ranged, http, env>>

\* the settings write of pass c completes (line 294); checkSystemOffline runs
\* up to its await
OvFeedSaved(c, writeOk) ==
    /\ c.pc = "feedSave"
    /\ settings' = storageSet(settings, GRID_KEY, c.feed, writeOk)
    /\ Moved(c, segOffline(state, now), now, c.data, c.feed)
    /\ UNCHANGED <<now, bootMinute, initDone, last, prev,
                   trail, daily, page, api, ranged, http, env>>

\* the offline alert of pass c was dispatched (line 143); the pass returns
OvOfflineDispatched(c) ==
    /\ c.pc = "offlineAwait"
    /\ Moved(c, Seg([state EXCEPT !.lastSystemOfflineAlertTime = c.t], "done",
                   <<>>), c.t, c.data, c.feed)
    /\ UNCHANGED <<settings, now, bootMinute, initDone, last, prev,
                   trail, daily, page, api, ranged, http, env>>

OverlapFetches ==
    {Throws, SteadyFetch, RowFetch("Utility Solar Bat", <<170, 0>>)}

NextOverlap ==
    \/ InitializeGridFeedStatus
    \/ \E dt \in {10} : OvTick(dt)
    \/ OvBegin
    \/ \E c \in calls, fetch \in OverlapFetches : OvFetched(c, fetch)
    \/ \E c \in calls : OvResetDispatched(c)
    \/ \E c \in calls : OvShedDispatched(c)
    \/ \E c \in calls, device \in {FeedingDevice, NotFeedingDevice} :
          OvFeedStatus(c, device)
    \/ \E c \in calls : OvFeedDispatched(c)
    \/ \E c \in calls : OvFeedSaved(c, TRUE)
    \/ \E c \in calls : OvOfflineDispatched(c)

SpecOverlap == InitDay /\ [][NextOverlap]_vars

----------------------------------------------------------------------------
\* Properties of the reset monitor (SpecReset)

Deviates(p) == p \notin {"Unknown", NoPriority, EXPECTED_OUTPUT_PRIORITY}

\* the latest handler run was a call of checkSystemReset
ResetCalled(l) ==
    /\ l.success
    /\ l.outputPriority # "Unknown"
    /\ \/ l.op = "runAllChecks"
       \/ l.op = "checkReset" /\ l.outputPriority # EXPECTED_OUTPUT_PRIORITY

\* this step is a handler run that checks a deviating priority
ResetDeviatingStep == now' # now /\ ResetCalled(last') /\ Deviates(last'.outputPriority)

\* C1: Reset Monitor debounce. While the priority seen by successive checks
\* stays a known value other than "Solar Utility Bat", the first deviating
\* check sends exactly one alert and no later check made less than one hour
\* after the most recent reset alert sends another.
C1_ResetDebounce ==
    [][ResetDeviatingStep =>
         IF ~Deviates(state.lastKnownOutputPriority)
         THEN Count(sent', "systemReset") = 1
         ELSE /\ alertLog["systemReset"][2] # NULL
              /\ (now' - alertLog["systemReset"][2] < 60
                     => Count(sent', "systemReset") = 0)]_vars

\* C1 witness: a deviating check of an active episode, less than an hour
\* after the alert, that sent nothing
C1_Witness ==
    /\ ResetCalled(last) /\ Deviates(last.outputPriority)
    /\ prev.systemResetDetected /\ Deviates(prev.lastKnownOutputPriority)
    /\ alertLog["systemReset"][2] # NULL
    /\ now - alertLog["systemReset"][2] > 0
    /\ now - alertLog["systemReset"][2] < 60
    /\ Count(sent, "systemReset") = 0

\* C9: Reset Monitor edge-clear. A check that sees "Solar Utility Bat" sends
\* no reset alert and leaves systemResetDetected = false and
\* lastResetAlertTime = null; the next deviating check sends an alert at once
\* and stamps its time, however recent the previous episode's alert.
C9_ResetEdgeClear ==
    [][/\ (now' # now /\ ResetCalled(last')
            /\ last'.outputPriority = EXPECTED_OUTPUT_PRIORITY)
          => /\ Count(sent', "systemReset") = 0
             /\ ~state'.systemResetDetected
             /\ state'.lastResetAlertTime = NULL
       /\ (ResetDeviatingStep
            /\ state.lastKnownOutputPriority = EXPECTED_OUTPUT_PRIORITY)
          => /\ Count(sent', "systemReset") = 1
             /\ state'.systemResetDetected
             /\ state'.lastResetAlertTime = now']_vars

\* C9 witness: a fresh alert right after a clear, less than an hour after the
\* previous episode's alert
C9_Witness ==
    /\ ResetCalled(last) /\ Deviates(last.outputPriority)
    /\ prev.lastKnownOutputPriority = EXPECTED_OUTPUT_PRIORITY
    /\ Count(sent, "systemReset") = 1
    /\ alertLog["systemReset"][2] = now
    /\ alertLog["systemReset"][1] # NULL
    /\ now - alertLog["systemReset"][1] < 60

\* C10: Reset Monitor reminder cadence. With the monitor active and the
\* priority still deviating, a check at or after one hour since
\* lastResetAlertTime sends exactly one reminder and restamps
\* lastResetAlertTime to the check's time; an earlier check sends nothing and
\* leaves the flag and the time as they were. Two alerts of one unresolved
\* episode are at least one hour apart.
C10_ResetReminderCadence ==
    [][/\ (ResetDeviatingStep /\ state.systemResetDetected
            /\ state.lastResetAlertTime # NULL)
          => IF now' - state.lastResetAlertTime >= 60
             THEN /\ Count(sent', "systemReset") = 1
                  /\ state'.systemResetDetected
                  /\ state'.lastResetAlertTime = now'
             ELSE /\ Count(sent', "systemReset") = 0
                  /\ state'.systemResetDetected
                  /\ state'.lastResetAlertTime = state.lastResetAlertTime
       /\ (ResetDeviatingStep /\ Deviates(state.lastKnownOutputPriority)
            /\ Count(sent', "systemReset") > 0)
          => /\ alertLog["systemReset"][2] # NULL
             /\ now' - alertLog["systemReset"][2] >= 60]_vars

\* C10 witness: a reminder of an active episode, an hour after its alert
C10_Witness ==
    /\ ResetCalled(last) /\ Deviates(last.outputPriority)
    /\ prev.systemResetDetected /\ Deviates(prev.lastKnownOutputPriority)
    /\ Count(sent, "systemReset") = 1
    /\ state.lastResetAlertTime = now
    /\ alertLog["systemReset"][1] # NULL
    /\ now - alertLog["systemReset"][1] >= 60

\* C13: the Reset Monitor takes the sentinel for no signal. A handler run
\* that reads outputPriority "Unknown" sends no reset alert and leaves
\* systemResetDetected, lastResetAlertTime and lastKnownOutputPriority as
\* they were, and so does checkSystemReset called with "Unknown" directly: an
\* active episode is neither cleared nor re-alerted.
C13_UnknownIsNoSignal ==
    [][now' # now =>
         /\ last'.outputPriority = "Unknown"
            => /\ Count(sent', "systemReset") = 0
               /\ state'.systemResetDetected = state.systemResetDetected
               /\ state'.lastResetAlertTime = state.lastResetAlertTime
               /\ state'.lastKnownOutputPriority = state.lastKnownOutputPriority
         /\ \A luck \in FaultLucks :
                checkSystemReset(state', "Unknown", now', luck) = Out(state', <<>>)]_vars

\* C13 witness: a successful pass that read no priority during an active
\* episode whose alert was an hour old
C13_Witness ==
    /\ last.op = "runAllChecks" /\ last.success
    /\ last.outputPriority = "Unknown"
    /\ prev.systemResetDetected
    /\ state.systemResetDetected
    /\ state.lastResetAlertTime # NULL
    /\ now - state.lastResetAlertTime >= 60
    /\ Deviates(state.lastKnownOutputPriority)
    /\ Count(sent, "systemReset") = 0

----------------------------------------------------------------------------
\* Properties of the grid-feed monitor (SpecFeed)

\* this step is a pass that ran checkGridFeed with a status resolved disabled
FeedDisabledStep ==
    /\ now' # now
    /\ last'.op = "runAllChecks" /\ last'.success
    /\ last'.feed = "disabled"

\* C2: Export-Disabled Monitor debounce. While successive checks keep
\* resolving disabled, no alert is sent at a check made less than the
\* reminder interval (one hour) after the most recent grid-feed alert.
C2_FeedDebounce ==
    [][(FeedDisabledStep /\ last.feed = "disabled"
        /\ alertLog["gridFeedDisabled"][2] # NULL
        /\ now' - alertLog["gridFeedDisabled"][2] <
               gridFeedAlertIntervalHours * 60)
       => Count(sent', "gridFeedDisabled") = 0]_vars

\* C7: Export-Disabled Monitor edge. When the previous check resolved enabled
\* (or no check has run yet) and this check resolves disabled, the alert is
\* sent in this very check and its time is stamped.
C7_FeedEdgeAlerts ==
    [][(FeedDisabledStep /\ last.feed \in {"enabled", "none"})
       => /\ Count(sent', "gridFeedDisabled") = 1
          /\ state'.lastGridFeedCheck = now']_vars

\* C7 witness: an alert on a fresh edge, less than an hour after the alert of
\* an earlier disabled episode
C7_Witness ==
    /\ last.op = "runAllChecks" /\ last.success /\ last.feed = "disabled"
    /\ prev.gridFeedingEnabled /\ ~prev.gridFeedAlerted
    /\ Count(sent, "gridFeedDisabled") = 1
    /\ state.lastGridFeedCheck = now
    /\ alertLog["gridFeedDisabled"][1] # NULL
    /\ now - alertLog["gridFeedDisabled"][1] < 60

----------------------------------------------------------------------------
\* Properties of the resolution of the grid-feed status (SpecBelief)

\* this step is a pass that read device data and resolved the status from it
ResolvedStep ==
    /\ now' # now
    /\ last'.op = "runAllChecks"
    /\ last'.device.kind = "data"

\* the local hour of the handler run that ends at now'
HourNext == currentHourAt(bootMinute, now')

Daytime(h) == h >= 7 /\ h <= 17

PvPower(device) == device.pv1 + device.pv2

\* C17: deterministic branch of the grid-feed status. When the local hour is
\* in the daytime window (7..17) and pvPower = pv1 + pv2 > 500 W, the
\* resolved status equals (solarFeedPower >= 50 W) whatever the persisted
\* flag is: true, false or absent.
C17_DeterministicBranch ==
    [][(ResolvedStep /\ Daytime(HourNext) /\ PvPower(last'.device) > 500)
       => /\ (last'.feed = "enabled") <=> (last'.device.feed >= 50)
          /\ \A s \in SettingsFiles :
                getGridFeedStatus(last'.device, s, HourNext).value
                    = (last'.device.feed >= 50)]_vars

\* C17 witness: by day, producing and not feeding, the status resolved
\* disabled while the persisted flag said enabled (and stayed so, the write
\* having failed)
C17_Witness ==
    /\ last.op = "runAllChecks" /\ last.device.kind = "data"
    /\ Daytime(currentHourAt(bootMinute, now))
    /\ PvPower(last.device) > 500 /\ last.device.feed < 50
    /\ last.feed = "disabled"
    /\ GRID_KEY \in DOMAIN settings /\ settings[GRID_KEY]

\* C18: fallback branch of the grid-feed status. At night or when
\* pvPower <= 500 W, the resolved status is enabled if the system is feeding
\* any amount (solarFeedPower > 0); otherwise it equals the persisted flag,
\* and is enabled when no flag has ever been persisted.
C18_FallbackBranch ==
    [][(ResolvedStep /\ ~(Daytime(HourNext) /\ PvPower(last'.device) > 500))
       => (last'.feed = "enabled")
            <=> \/ last'.device.feed > 0
                \/ storageGet(settings, GRID_KEY, TRUE)]_vars

\* this step is a pass that ran checkGridFeed
FeedCheckStep ==
    /\ now' # now
    /\ last'.op = "runAllChecks"
    /\ last'.device.kind # "notread"

C20_SilentClear ==
    [][(FeedCheckStep /\ last'.feed = "enabled")
       => /\ sent' = <<>>
          /\ last'.delivery = NoDispatch
          /\ state'.lastGridFeedCheck = NULL]_vars

\* C20 witness: a check that resolved enabled while an alert of the disabled
\* status was outstanding
C20_Witness ==
    /\ last.op = "runAllChecks" /\ last.device.kind # "notread"
    /\ last.feed = "enabled"
    /\ ~prev.gridFeedingEnabled /\ prev.gridFeedAlerted
    /\ alertLog["gridFeedDisabled"][2] # NULL
    /\ sent = <<>>
    /\ state.lastGridFeedCheck = NULL


\* this step is a pass that resolved the status with nothing to judge by:
\* night or pvPower <= 500 W, and a feed below the feeding threshold
NightStep ==
    /\ ResolvedStep
    /\ ~(Daytime(HourNext) /\ PvPower(last'.device) > 500)
    /\ last'.device.feed < 50

\* C35: the night-time belief is a fixed point. At night or with
\* pvPower <= 500 W, and with solarFeedPower below the feeding threshold, the
\* resolved status equals the persisted flag (enabled when none is
\* persisted); the pass leaves the persisted belief as it was, sends no
\* grid-feed alert when the persisted belief is enabled, and leaves a
\* persisted disabled flag disabled.
C35_NightFixedPoint ==
    [][NightStep =>
         LET saved == storageGet(settings, GRID_KEY, TRUE)
         IN /\ (last'.feed = "enabled") <=> saved
            /\ (last'.feed = "disabled") <=> ~saved
            /\ storageGet(settings', GRID_KEY, TRUE) = saved
            /\ state'.gridFeedingEnabled = saved
            /\ saved => Count(sent', "gridFeedDisabled") = 0
            /\ ~saved => /\ GRID_KEY \in DOMAIN settings'
                         /\ ~settings'[GRID_KEY]]_vars

\* a poll at low production with a feed of 30 W found the persisted flag
\* disabled and left it so, the poll before it having done the same
C35_Witness ==
    /\ last.op = "runAllChecks" /\ last.device.kind = "data"
    /\ PvPower(last.device) <= 500
    /\ last.device.feed > 0 /\ last.device.feed < 50
    /\ last.feed = "disabled"
    /\ ~prev.gridFeedingEnabled
    /\ ~state.previousGridFeedStatus /\ ~state.gridFeedingEnabled
    /\ GRID_KEY \in DOMAIN settings /\ ~settings[GRID_KEY]


\* this step is the resolution of the constructor's initializeGridFeedStatus
InitializedStep == ~initDone /\ initDone'

\* C36: the constructor's un-awaited load of the status cannot clobber a
\* check. Whenever initializeGridFeedStatus resolves after a checkGridFeed
\* has written gridFeedingEnabled and previousGridFeedStatus, it leaves both
\* as the check wrote them.
C36_InitKeepsCheck ==
    [][(InitializedStep /\ last.feed # "none")
       => /\ state'.gridFeedingEnabled = state.gridFeedingEnabled
          /\ state'.previousGridFeedStatus = state.previousGridFeedStatus]_vars

----------------------------------------------------------------------------
\* Properties of the offline monitor (SpecOffline)

\* this step is a cron pass whose fetch failed
FailedPassStep == now' # now /\ last'.op = "runAllChecks" /\ ~last'.success

C14_FailedFetchSkipsChecks ==
    [][FailedPassStep =>
         /\ state'.systemResetDetected = state.systemResetDetected
         /\ state'.lastResetAlertTime = state.lastResetAlertTime
         /\ state'.lastKnownOutputPriority = state.lastKnownOutputPriority
         /\ state'.isLoadShedding = state.isLoadShedding
         /\ state'.lastLoadSheddingAlertTime = state.lastLoadSheddingAlertTime
         /\ state'.gridFeedingEnabled = state.gridFeedingEnabled
         /\ state'.previousGridFeedStatus = state.previousGridFeedStatus
         /\ state'.lastGridFeedCheck = state.lastGridFeedCheck
         /\ settings' = settings
         /\ \A k \in {"systemReset", "loadShedding", "gridFeedDisabled"} :
                Count(sent', k) = 0
         /\ Count(sent', "systemOffline") =
                IF /\ now' - state.lastDataTimestamp > systemOfflineThresholdMinutes
                   /\ state.systemOnline
                THEN 1 ELSE 0]_vars

\* C14 witness: a failed pass that sent the offline alert and nothing else
\* while all three conditions were active, the reset reminder being due
C14_Witness ==
    /\ last.op = "runAllChecks" /\ ~last.success
    /\ sent = <<"systemOffline">>
    /\ state.systemResetDetected
    /\ now - state.lastResetAlertTime >= 60
    /\ state.isLoadShedding
    /\ ~state.gridFeedingEnabled
    /\ GRID_KEY \in DOMAIN settings /\ ~settings[GRID_KEY]

\* this step is a cron pass whose fetch succeeded after a failed run
RecoveryStep ==
    /\ now' # now
    /\ last'.op = "runAllChecks" /\ last'.success
    /\ last.op # "none" /\ ~last.success

OfflineAlertStep == now' # now /\ Count(sent', "systemOffline") > 0

ResetFields ==
    {"systemResetDetected", "lastResetAlertTime", "lastKnownOutputPriority"}
ShedFields == {"isLoadShedding", "lastLoadSheddingAlertTime"}
FeedFields ==
    {"lastGridFeedCheck", "previousGridFeedStatus", "gridFeedingEnabled"}
OfflineFields == {"systemOnline", "lastSystemOfflineAlertTime"}

\* the check left every field outside F as it was in st
framed(r, st, F) == \A f \in DOMAIN st \ F : r.state[f] = st[f]

\* st with the fields outside F as the constructor left them
ownOnly(st, F) ==
    [f \in DOMAIN st |-> IF f \in F THEN st[f] ELSE constructorState[f]]

\* the times at which the checks are tried on the current state
TrialTimes == {now, now + 10, now + 60, now + 300}

\* C32: the monitors are independent. Called on any state the service
\* reaches, with any reading, checkSystemReset changes only
\* systemResetDetected, lastResetAlertTime and lastKnownOutputPriority,
\* checkLoadShedding only isLoadShedding and lastLoadSheddingAlertTime,
\* checkGridFeed only lastGridFeedCheck, previousGridFeedStatus and
\* gridFeedingEnabled (and the persisted flag), checkSystemOffline only
\* systemOnline and lastSystemOfflineAlertTime; and the alerts each check
\* sends are the same when the other monitors' fields are replaced by their
\* initial values (the offline check reads lastDataTimestamp besides its
\* own two fields).
C32_Independent ==
    \A t \in TrialTimes :
        /\ \A p \in {"Unknown", EXPECTED_OUTPUT_PRIORITY, "Utility Solar Bat"} :
               /\ framed(checkSystemReset(state, p, t, AllDelivered), state,
                         ResetFields)
               /\ checkSystemReset(state, p, t, AllDelivered).alerts =
                      checkSystemReset(ownOnly(state, ResetFields), p, t,
                                       AllDelivered).alerts
        /\ \A v \in {0, 170, 180, 230} :
               /\ framed(checkLoadShedding(state, v, t, AllDelivered), state,
                         ShedFields)
               /\ checkLoadShedding(state, v, t, AllDelivered).alerts =
                      checkLoadShedding(ownOnly(state, ShedFields), v, t,
                                        AllDelivered).alerts
        /\ \A b \in BOOLEAN :
               /\ framed(checkGridFeed(state, b, t, AllDelivered), state,
                         FeedFields)
               /\ checkGridFeed(state, b, t, AllDelivered).alerts =
                      checkGridFeed(ownOnly(state, FeedFields), b, t,
                                    AllDelivered).alerts
        /\ framed(checkSystemOffline(state, t, AllDelivered), state,
                  OfflineFields)
        /\ checkSystemOffline(state, t, AllDelivered).alerts =
               checkSystemOffline(
                   ownOnly(state, OfflineFields \cup {"lastDataTimestamp"}),
                   t, AllDelivered).alerts

\* C32 witness: after a failed pass the four monitors are all active, each
\* with its own alert time
C32_Witness ==
    /\ last.op = "runAllChecks" /\ ~last.success
    /\ state.systemResetDetected /\ state.lastResetAlertTime # NULL
    /\ state.isLoadShedding /\ state.lastLoadSheddingAlertTime # NULL
    /\ ~state.gridFeedingEnabled /\ state.lastGridFeedCheck # NULL
    /\ ~state.systemOnline /\ state.lastSystemOfflineAlertTime # NULL

----------------------------------------------------------------------------
\* Properties of the load-shedding monitor (SpecShed)

\* this step is a pass that read grid voltage v
ShedStep(v) ==
    /\ now' # now
    /\ last'.op = "runAllChecks" /\ last'.success
    /\ last'.gridVoltage = v

\* C8: Load-shedding edge-clear. With load shedding active, a check whose
\* voltage is nonzero and at or above the threshold sends no load-shedding
\* alert and sets isLoadShedding = false and lastLoadSheddingAlertTime = null;
\* a low voltage read by an inactive monitor alerts at once.
C8_ShedEdgeClear ==
    [][\A v \in {w[1] : w \in Voltages} \cup {w[2] : w \in Voltages} :
         /\ (ShedStep(v) /\ state.isLoadShedding
              /\ v >= loadSheddingVoltageThreshold)
            => /\ Count(sent', "loadShedding") = 0
               /\ ~state'.isLoadShedding
               /\ state'.lastLoadSheddingAlertTime = NULL
         /\ (ShedStep(v) /\ ~state.isLoadShedding
              /\ v > 0 /\ v < loadSheddingVoltageThreshold)
            => Count(sent', "loadShedding") = 1]_vars

\* a successful pass, whatever voltage it read
ReadingStep == now' # now /\ last'.op = "runAllChecks" /\ last'.success

\* C11: load-shedding condition and zero-voltage asymmetry. A pass sends a
\* load-shedding alert only when 0 < gridVoltage < threshold (180), and an
\* inactive monitor that reads such a voltage does send one; a reading of
\* exactly 0 is no reading: it sends nothing and leaves isLoadShedding and
\* lastLoadSheddingAlertTime alone. From the inactive state the voltages
\* 230, 230, 0, 0, 170, 170, read less than 5 hours apart, send exactly one
\* alert, at index 4.
C11_ShedCondition ==
    [][ReadingStep =>
         LET v == last'.gridVoltage
             low == v > 0 /\ v < loadSheddingVoltageThreshold
         IN /\ Count(sent', "loadShedding") > 0 => low
            /\ (low /\ ~state.isLoadShedding)
                  => Count(sent', "loadShedding") = 1
            /\ v = 0
                  => /\ state'.isLoadShedding = state.isLoadShedding
                     /\ state'.lastLoadSheddingAlertTime =
                            state.lastLoadSheddingAlertTime
            /\ trail'.on
                  => \A i \in DOMAIN trail'.alerts :
                         trail'.alerts[i] = IF i = 5 THEN 1 ELSE 0]_vars

\* C11 witness: the six readings of the scenario were made, the last of them
\* less than 5 hours after the single alert
C11_Witness ==
    /\ trail.on
    /\ trail.alerts = <<0, 0, 0, 0, 1, 0>>
    /\ last.gridVoltage = 170
    /\ state.isLoadShedding
    /\ alertLog["loadShedding"][1] = NULL
    /\ now - alertLog["loadShedding"][2] > 0
    /\ now - alertLog["loadShedding"][2] < 300
    /\ sent = <<>>

\* the reading is one that checkLoadShedding takes for load shedding
LowVoltage(v) == v > 0 /\ v < loadSheddingVoltageThreshold

\* this step is a pass whose check found the load-shedding condition true
ShedLowStep == ReadingStep /\ LowVoltage(last'.gridVoltage)

\* C12: load-shedding reminder cadence. While 0 < gridVoltage < threshold
\* holds on successive checks, the first such check (the one that follows a
\* check of a voltage not below the threshold, or no check at all) sends an
\* alert; a later one sends an alert only when at least 5 hours have passed
\* since the most recent load-shedding alert.
C12_ShedReminderCadence ==
    [][ShedLowStep =>
         /\ (\/ last.op = "none"
             \/ last.success /\ last.gridVoltage >= loadSheddingVoltageThreshold)
            => Count(sent', "loadShedding") = 1
         /\ (last.success /\ LowVoltage(last.gridVoltage))
            => /\ alertLog["loadShedding"][2] # NULL
               /\ Count(sent', "loadShedding") > 0
                    => now' - alertLog["loadShedding"][2] >= 5 * 60]_vars


-----------------------------------------------------------------------------
\* Properties of the monitor state between handler runs (SpecFaults)

\* C34: active-flag / timestamp consistency. Between handler runs (the
\* handlers run one at a time), systemResetDetected is true iff
\* lastResetAlertTime is non-null, isLoadShedding is true iff
\* lastLoadSheddingAlertTime is non-null, and systemOnline is false iff
\* lastSystemOfflineAlertTime is non-null.
C34_FlagsMatchTimes ==
    /\ state.systemResetDetected <=> state.lastResetAlertTime # NULL
    /\ state.isLoadShedding <=> state.lastLoadSheddingAlertTime # NULL
    /\ ~state.systemOnline <=> state.lastSystemOfflineAlertTime # NULL

\* all three episodes are active at once, each with its alert time
C34_Witness ==
    /\ state.systemResetDetected /\ state.lastResetAlertTime # NULL
    /\ state.isLoadShedding /\ state.lastLoadSheddingAlertTime # NULL
    /\ ~state.systemOnline /\ state.lastSystemOfflineAlertTime # NULL


-----------------------------------------------------------------------------
\* Properties of the upstream client (SpecApi)

\* a call of getDailyData or getDeviceLastData is in progress
InCall == api.pc \in {"ensure", "request"}

\* C37: the telemetry fetch terminates. Every call of getDailyData or
\* getDeviceLastData returns or throws in the end, whatever the upstream
\* answers; in particular not even an upstream that answers every data
\* request with HTTP 401 and every login with tokens keeps the call logging
\* in and retrying for ever.
C37_FetchTerminates == InCall ~> api.pc \in {"returned", "thrown"}


-----------------------------------------------------------------------------
\* Properties of the range statistics (SpecRange)

\* the lines enqueued so far are those of the first dates of the range, one
\* each and in ascending order
OnePerDate ==
    /\ Len(ranged.records) <= ranged.to - ranged.from + 1
    /\ \A i \in DOMAIN ranged.records :
          ranged.records[i].date = ranged.from + i - 1

\* the totals a line carries
totalsAt(i) ==
    IF i = 0 THEN <<0, 0>>
    ELSE <<ranged.records[i].total_production_kwh,
           ranged.records[i].total_load_kwh>>

\* a date that failed has null production and load and leaves the running
\* totals where they were
FailuresAreNull ==
    \A i \in DOMAIN ranged.records :
        ranged.records[i].error # ""
        => /\ ranged.records[i].production_kwh = NULL
           /\ ranged.records[i].load_kwh = NULL
           /\ totalsAt(i) = totalsAt(i - 1)

\* the stream gives a date up after a failure that says 'No data available'
\* or after the third failed attempt, and not before
BoundedRetries ==
    [][(ranged.pc = "fetching" /\ api.pc = "thrown" /\ ranged' # ranged)
       => /\ ranged.attempt < maxRetries
          /\ IF api.error = "API Error: No data available"
                \/ ranged.attempt = maxRetries - 1
             THEN /\ Len(ranged'.records) = Len(ranged.records) + 1
                  /\ ranged'.records[Len(ranged'.records)].error = api.error
             ELSE /\ ranged'.records = ranged.records
                  /\ ranged'.attempt = ranged.attempt + 1]_vars

\* what holds of every stream as far as it has come
RangeSafety ==
    /\ [](ranged.pc # "idle" /\ ranged.from <= ranged.to
          => OnePerDate /\ FailuresAreNull)
    /\ [](ranged.pc = "closed" /\ ranged.from <= ranged.to
          => Len(ranged.records) = ranged.to - ranged.from + 1)
    /\ BoundedRetries

\* C38: range statistics isolate per-day failures. For from_date <= to_date
\* the stream emits exactly one progress line per date of the inclusive
\* range, in ascending order; a date whose fetch still fails after at most 3
\* attempts (none after 'No data available') yields null production and load
\* and adds 0 to the running totals; and whatever happens to one date, the
\* lines of the later dates are emitted: the stream reaches its close with
\* all of them.
C38_PerDayIsolation ==
    ranged.pc = "fetching"
    ~> /\ ranged.pc = "closed"
       /\ Len(ranged.records) = ranged.to - ranged.from + 1
       /\ OnePerDate
       /\ FailuresAreNull


-----------------------------------------------------------------------------
\* Properties of the cron endpoints (SpecCron)

\* this step is a request to a cron endpoint
CronStep == now' # now

\* the request of this step carried the secret the deployment is configured
\* with
WithTheSecret ==
    /\ env.CRON_SECRET # Undefined
    /\ http'.authorization = <<"Bearer ", env.CRON_SECRET>>

\* the request of this step was turned away and did nothing
TurnedAway ==
    /\ http'.status = 401
    /\ state' = state
    /\ settings' = settings
    /\ sent' = <<>>
    /\ alertLog' = alertLog
    /\ last' = last
    /\ daily' = daily

\* C39: the cron endpoints are gated. /api/cron/monitor runs the monitoring
\* pass and /api/cron/daily-summary builds and sends the summary only when
\* the Authorization header is 'Bearer ' followed by the configured
\* CRON_SECRET; every other request is answered 401 and changes no monitor
\* state, writes no flag and sends no notification.
C39_CronGated ==
    [][CronStep =>
         IF WithTheSecret
         THEN /\ http'.status # 401
              /\ last'.op \in {"runAllChecks", "dailySummary"}
         ELSE TurnedAway]_vars

\* the same for a deployment that has CRON_SECRET set
GatedWhenConfigured ==
    [][(CronStep /\ env.CRON_SECRET # Undefined) =>
         IF WithTheSecret
         THEN /\ http'.status # 401
              /\ last'.op \in {"runAllChecks", "dailySummary"}
         ELSE TurnedAway]_vars

----------------------------------------------------------------------------

\* this step is a pass that got no voltage reading: the fetch failed, or
\* the reading was zero volts
NoReadingStep == FailedPassStep \/ ShedStep(0)

\* the state this step starts in was left by a pass that got no reading
AfterNoReading ==
    /\ last.op = "runAllChecks"
    /\ ~last.success \/ last.gridVoltage = 0

\* C33: zero-voltage readings freeze the load-shedding monitor. A pass whose
\* fetch fails or whose reading is zero volts sends no load-shedding alert
\* and leaves isLoadShedding and lastLoadSheddingAlertTime as they were, so
\* an active episode stays active across it; and a low voltage read right
\* after such a pass, with the episode still active and less than 5 hours
\* after the last load-shedding alert, sends no new alert.
C33_ZeroFreezes ==
    [][/\ NoReadingStep
          => /\ Count(sent', "loadShedding") = 0
             /\ state'.isLoadShedding = state.isLoadShedding
             /\ state'.lastLoadSheddingAlertTime =
                    state.lastLoadSheddingAlertTime
       /\ (/\ ShedLowStep
           /\ AfterNoReading
           /\ state.isLoadShedding
           /\ alertLog["loadShedding"][2] # NULL
           /\ now' - alertLog["loadShedding"][2] < 5 * 60)
          => /\ Count(sent', "loadShedding") = 0
             /\ state'.isLoadShedding
             /\ state'.lastLoadSheddingAlertTime =
                    alertLog["loadShedding"][2]]_vars

\* an active episode has just been carried across a reading of zero volts
C33_Witness ==
    /\ last.op = "runAllChecks" /\ last.success /\ last.gridVoltage = 0
    /\ prev.isLoadShedding
    /\ state.isLoadShedding
    /\ state.lastLoadSheddingAlertTime # NULL
    /\ state.lastLoadSheddingAlertTime < now

\* Properties of partial readings (SpecPartial)

\* the part of the state the reset monitor owns
resetPart(st) ==
    <<st.systemResetDetected, st.lastResetAlertTime, st.lastKnownOutputPriority>>

\* the part of the state the load-shedding monitor owns
shedPart(st) == <<st.isLoadShedding, st.lastLoadSheddingAlertTime>>

SuccessfulPassStep == now' # now /\ last'.op = "runAllChecks" /\ last'.success

\* C21: partial-field readings. In a successful reading where only some fields
\* resolved, the monitors of the known fields still run and the unresolved
\* fields cause neither an alert nor a state change: a known priority with
\* voltage 0 gets the reset check (its alert and its writes) and leaves the
\* load-shedding state untouched; priority "Unknown" with a nonzero voltage
\* gets the load-shedding check and leaves the reset state untouched.
C21_PartialReadings ==
    [][SuccessfulPassStep =>
         /\ (last'.outputPriority # "Unknown" /\ last'.gridVoltage = 0) =>
              LET c == checkSystemReset(state, last'.outputPriority, now',
                                        AllDelivered)
              IN /\ resetPart(state') = resetPart(c.state)
                 /\ Count(sent', "systemReset") = Len(c.alerts)
                 /\ shedPart(state') = shedPart(state)
                 /\ Count(sent', "loadShedding") = 0
         /\ (last'.outputPriority = "Unknown" /\ last'.gridVoltage > 0) =>
              LET c == checkLoadShedding(state, last'.gridVoltage, now',
                                         AllDelivered)
              IN /\ shedPart(state') = shedPart(c.state)
                 /\ Count(sent', "loadShedding") = Len(c.alerts)
                 /\ resetPart(state') = resetPart(state)
                 /\ Count(sent', "systemReset") = 0]_vars

\* C21 witness: a deviating priority read with voltage 0 raised the reset
\* alert while load shedding, detected before, stayed as it was
C21_Witness ==
    /\ last.op = "runAllChecks" /\ last.success
    /\ last.outputPriority = "Utility Solar Bat" /\ last.gridVoltage = 0
    /\ Count(sent, "systemReset") = 1
    /\ state.systemResetDetected /\ ~prev.systemResetDetected
    /\ state.isLoadShedding /\ prev.isLoadShedding

\* C21 witness (second half): an unknown priority read with a low voltage
\* raised the load-shedding alert while the detected reset stayed as it was
C21_WitnessUnknown ==
    /\ last.op = "runAllChecks" /\ last.success
    /\ last.outputPriority = "Unknown" /\ last.gridVoltage = 170
    /\ Count(sent, "loadShedding") = 1
    /\ state.systemResetDetected /\ prev.systemResetDetected

----------------------------------------------------------------------------
\* Properties of the failing collaborators (SpecFaults)

\* the state change that the alert of kind k, sent at minute t, brings
Applied(st, k, t) ==
    CASE k = "systemReset" ->
             st.systemResetDetected /\ st.lastResetAlertTime = t
      [] k = "loadShedding" ->
             st.isLoadShedding /\ st.lastLoadSheddingAlertTime = t
      [] k = "gridFeedDisabled" -> st.lastGridFeedCheck = t
      [] k = "systemOffline" ->
             ~st.systemOnline /\ st.lastSystemOfflineAlertTime = t

\* C15: the notification fan-out is independent and does not roll back. For
\* every alert a handler run sends, delivery is attempted on all three
\* channels whichever of them fail, no exception reaches the caller of the
\* check, and the monitor's state change for the alert (flag set, time
\* stamped) is applied even when one or all channels fail.
C15_FanOutIndependent ==
    [][(now' # now /\ sent' # <<>>) =>
         /\ last'.delivery.attempted = ChannelSet
         /\ last'.delivery.delivered \subseteq ChannelSet
         /\ last'.escaped = {}
         /\ \A i \in DOMAIN sent' : Applied(state', sent'[i], now')]_vars

\* C15 witness: a pass that sent the reset, load-shedding and grid-feed
\* alerts while every channel failed
C15_Witness ==
    /\ last.op = "runAllChecks"
    /\ sent = <<"systemReset", "loadShedding", "gridFeedDisabled">>
    /\ last.delivery.attempted = ChannelSet
    /\ last.delivery.delivered = {}
    /\ \A i \in DOMAIN sent : Applied(state, sent[i], now)

\* C16: no collaborator failure escapes. Whatever fails (the fetch throws or
\* returns nothing, the device read throws, the settings file cannot be read
\* or written, a channel's send fails), runAllChecks, the four checks,
\* getGridFeedStatus, getDailyStats and sendDailySummary return normally: in
\* no handler run, and for no input at any state reached, does one of them
\* complete by throwing.
C16_NothingEscapes ==
    /\ last.escaped = {}
    /\ \A luck \in Lucks :
          /\ \A p \in {"Unknown", EXPECTED_OUTPUT_PRIORITY, "Solar First"} :
                ~checkSystemReset(state, p, now, luck).threw
          /\ \A v \in {0, 170, 180, 230} :
                ~checkLoadShedding(state, v, now, luck).threw
          /\ \A b \in BOOLEAN : ~checkGridFeed(state, b, now, luck).threw
          /\ ~checkSystemOffline(state, now, luck).threw
          /\ ~sendDailySummary(luck).threw
          /\ \A in \in FaultInputs :
                runAllChecks(state, settings, in[1], in[2], in[3],
                             bootMinute, now, luck).escaped = {}
    /\ \A device \in Devices, h \in 0..23 :
          ~getGridFeedStatus(device, settings, h).threw
    /\ \A data \in FaultDailies, dateStr \in 0..2 :
          ~getDailyStats(dateStr, data, now).threw

\* C16 witness: a pass during which every channel failed and the settings
\* file, missing before, could not be written, after a pass whose fetch had
\* failed
C16_Witness ==
    /\ last.op = "runAllChecks" /\ last.success
    /\ last.feed = "disabled"
    /\ ~prev.systemOnline
    /\ sent # <<>>
    /\ last.delivery.delivered = {}
    /\ GRID_KEY \notin DOMAIN settings
    /\ ~state.gridFeedingEnabled
    /\ last.escaped = {}

----------------------------------------------------------------------------
\* Properties of the daily statistics (SpecDaily)

\* a getDailyStats call returned a summary
Summarized == daily.summary # NoSummary

\* C22: aggregator energy identity. For every sample set, the reported
\* gridContributionKwh equals round(productionKwh - consumptionKwh, 2)
\* computed from the reported, already rounded, productionKwh and
\* consumptionKwh (in hundredths of a kWh the difference of the two is its own
\* rounding).
C22_EnergyIdentity ==
    Summarized =>
        daily.summary.grid_contribution_kwh =
            daily.summary.production_kwh - daily.summary.load_kwh

\* the last getDailyStats call was for a date that is over
PastDate == daily.date # NULL /\ daily.date < dayOf(bootMinute, now)

\* the rows of the last call that were retained for its date
retainedCount == actualDataPoints(rowsOf(daily.data.rows), daily.date)

\* the minutes a reported duration `<hrs> hr <mins> min` stands for
minutesOf(text) == 60 * text.hrs + text.mins

\* the minutes of the reported missing duration
missingMinutes == minutesOf(daily.summary.missing_data_hours)

\* C23 (as stated): aggregator completeness identity. For any completed past
\* date and any returned series, series of more than 288 rows on that date
\* included, the retained count plus the missing count is the expected count
\* 288 (counted in minutes of 5-minute samples, the missing count being the
\* one the summary reports as its missing duration).
C23_Completeness ==
    (Summarized /\ PastDate) =>
        5 * retainedCount + missingMinutes = 5 * expectedDataPoints

\* C23 (amended): for a completed past date the retained count plus the
\* missing count is the larger of 288 and the retained count: it is 288 as
\* long as no more than 288 rows are retained, and with more rows the missing
\* count is 0 and the sum is the retained count.
C23_CompletenessUpTo288 ==
    (Summarized /\ PastDate) =>
        /\ 5 * retainedCount + missingMinutes =
               5 * Max(expectedDataPoints, retainedCount)
        /\ retainedCount > expectedDataPoints => missingMinutes = 0

\* C23 witness: a summary of yesterday over 280 retained rows, 8 missing
C23_Witness ==
    /\ Summarized /\ PastDate
    /\ retainedCount = 280
    /\ missingMinutes = 40

\* a summary of yesterday over 289 retained rows
C23_WitnessOver ==
    /\ Summarized /\ PastDate
    /\ retainedCount = 289
    /\ missingMinutes = 0

\* the minute at which the last summary was built
builtAt == daily.summary.timestamp

\* the samples due by then for the date of the call, were it scaled: 288 for
\* a date that is over, one per 5 minutes since midnight for the current date
scaledExpected ==
    IF daily.date = dayOf(bootMinute, builtAt)
    THEN minuteOfDay(bootMinute, builtAt) \div 5
    ELSE expectedDataPoints

\* C24: expected sample count scales for today. The aggregator uses 288
\* expected samples for a completed past date and floor(minutes elapsed since
\* midnight / 5) for the current in-progress date, and derives the missing
\* count and the missing duration from that value in both cases.
C24_ExpectedScales ==
    (Summarized /\ daily.date <= dayOf(bootMinute, builtAt)) =>
        missingMinutes = 5 * Max(0, scaledExpected - retainedCount)

\* the stats-range route produced an entry for the day
Ranged == daily.range # NoRange

\* the returned rows without those whose timestamp is not on the date
onDate(runs, dateStr) == SelectSeq(runs, LAMBDA r : r.row.day = dateStr)

\* rows of the dates next to the date (and none)
AdjacentRows(dateStr) ==
    {<<>>,
     <<Run(LineRow(dateStr - 1), 3)>>,
     <<Run(BatteryRow(dateStr + 1), 2), Run(StandbyRow(dateStr - 1), 1)>>}

\* C25: date filter. Only the samples whose timestamp falls on the requested
\* date contribute to the summary: every value of the summary (and of the
\* stats-range entry of the day) is the one computed from the rows of that
\* date alone, and stays the same when rows of an adjacent date are added to
\* or removed from the series; every retained sample weighs 5 minutes, so a
\* series of k retained samples of 1200 W yields k * 1200 * 5/60 Wh.
C25_DateFilter ==
    /\ Summarized =>
          \A extra \in AdjacentRows(daily.date) :
              getDailyStats(daily.date,
                            DailyData(onDate(daily.data.rows, daily.date)
                                      \o extra),
                            builtAt).value = daily.summary
    /\ Ranged =>
          \A extra \in AdjacentRows(daily.date) :
              dailyData(daily.date,
                        DailyData(onDate(daily.data.rows, daily.date)
                                  \o extra)) = daily.range
    /\ (Summarized /\ \A i \in DOMAIN daily.data.rows :
                          daily.data.rows[i].row.pv = 1200
                          /\ daily.data.rows[i].row.n >= 22) =>
          daily.summary.production_kwh = MathRound(retainedCount * 1200, 120)

\* C25 witness: a summary of a date over 280 rows of that date, 8 of the day
\* before and 1 of the day after: 28 kWh produced, 21 kWh consumed, 8 missing
C25_Witness ==
    /\ Summarized
    /\ \E i \in DOMAIN daily.data.rows :
           daily.data.rows[i].row.day = daily.date - 1
    /\ \E i \in DOMAIN daily.data.rows :
           daily.data.rows[i].row.day = daily.date + 1
    /\ retainedCount = 280
    /\ daily.summary.production_kwh = 2800
    /\ daily.summary.load_kwh = 2100
    /\ missingMinutes = 40

\* a stats-range entry of a date over the same rows
C25_WitnessRange ==
    /\ Ranged
    /\ \E i \in DOMAIN daily.data.rows :
           daily.data.rows[i].row.day = daily.date - 1
    /\ daily.range.production_kwh = 2800
    /\ daily.range.load_kwh = 2100

\* C26: missing duration. The missing duration is max(0, expected - retained
\* count) x 5 minutes, expected being the count the aggregator expects (288),
\* and it is reported as `<h> hr <m> min` with h * 60 + m that number of
\* minutes and 0 <= m <= 59; with 280 retained rows for a completed date the
\* summary reports `0 hr 40 min`.
C26_MissingDuration ==
    Summarized =>
        /\ missingMinutes = 5 * Max(0, expectedDataPoints - retainedCount)
        /\ daily.summary.missing_data_hours.hrs >= 0
        /\ daily.summary.missing_data_hours.mins \in 0..59
        /\ (PastDate /\ retainedCount = 280) =>
               daily.summary.missing_data_hours = [hrs |-> 0, mins |-> 40]

\* C26 witness: the summary of yesterday over exactly 280 rows, all retained,
\* reports 0 hr 40 min
C26_Witness ==
    /\ Summarized /\ PastDate
    /\ lengthOf(daily.data.rows) = 280
    /\ retainedCount = 280
    /\ daily.summary.missing_data_hours = [hrs |-> 0, mins |-> 40]

\* a summary over 37 retained rows reports 20 hr 55 min
C26_WitnessHours ==
    /\ Summarized /\ PastDate
    /\ retainedCount = 37
    /\ daily.summary.missing_data_hours = [hrs |-> 20, mins |-> 55]

\* the last call was a getDailyStats call whose source returned rows, none
\* of them retained for the date
NothingRetained ==
    /\ daily.date # NULL
    /\ ~Ranged
    /\ daily.data.kind # "throw"
    /\ retainedCount = 0

\* C27: empty input is not an error. When the source returns zero retained
\* samples for the requested date (no data, or a date entirely in the
\* future), the aggregator returns a summary, not null and not an exception,
\* with production, consumption and grid contribution 0, battery and standby
\* durations 0, and a missing duration of the whole expected period (the 288
\* samples the aggregator expects, 24 hours).
C27_EmptyIsNotAnError ==
    NothingRetained =>
        /\ ~getDailyStats(daily.date, daily.data, now).threw
        /\ Summarized
        /\ daily.summary.date = daily.date
        /\ daily.summary.production_kwh = 0
        /\ daily.summary.load_kwh = 0
        /\ daily.summary.grid_contribution_kwh = 0
        /\ daily.summary.load_shedding_hours = [hrs |-> 0, mins |-> 0]
        /\ daily.summary.standby_hours = [hrs |-> 0, mins |-> 0]
        /\ missingMinutes = 5 * expectedDataPoints
        /\ daily.summary.missing_data_hours = [hrs |-> 24, mins |-> 0]

\* C27 witness: the summary of a date in the future, for which the source
\* answers ERR_NO_RECORD
C27_Witness ==
    /\ NothingRetained
    /\ daily.date > dayOf(bootMinute, now)
    /\ daily.data = NoRecord
    /\ Summarized
    /\ daily.summary.missing_data_hours = [hrs |-> 24, mins |-> 0]

\* the summary of yesterday when every returned row is of another date or
\* too short
C27_WitnessFiltered ==
    /\ NothingRetained /\ PastDate
    /\ daily.data.rows # <<>>
    /\ Summarized

\* the summary was built twice in a row for the same date over the same
\* samples
BuiltAgain == Summarized /\ daily.again # NoSummary

\* a summary without its generation timestamp
unstamped(summary) == [summary EXCEPT !.timestamp = NULL]

\* C28 (as stated): summary idempotence. Building the daily summary twice for
\* the same date over the same underlying samples yields identical values in
\* every field of the summary both times.
C28_Idempotent == BuiltAgain => daily.summary = daily.again

\* C28 (amended): building the daily summary twice for the same date over the
\* same underlying samples yields identical values in every field of the
\* summary other than the generation timestamp, which is the time of each
\* build.
C28_IdempotentButStamp ==
    BuiltAgain =>
        /\ unstamped(daily.summary) = unstamped(daily.again)
        /\ daily.summary.timestamp = now

\* C28 witness: yesterday's summary built by the route twice, at two
\* different minutes, over the same rows
C28_Witness ==
    /\ BuiltAgain /\ PastDate
    /\ last.op = "dailySummary"
    /\ retainedCount > 0
    /\ daily.again.timestamp < daily.summary.timestamp

\* the retained rows of the last call whose mode is one of M
slicesIn(M) ==
    Cardinality({i \in 1..lengthOf(daily.data.rows) :
                    /\ retained(rowAt(daily.data.rows, i), daily.date)
                    /\ modeOf(rowAt(daily.data.rows, i)) \in M})

\* the retained rows that are neither in battery nor in standby mode
lineSlices == retainedCount - slicesIn({"Battery Mode", "Standby Mode"})

batteryMinutes == minutesOf(daily.summary.load_shedding_hours)

standbyMinutes == minutesOf(daily.summary.standby_hours)

\* C29 (as stated): duration partition. Every retained sample adds exactly
\* one 5-minute slice to exactly one of the buckets battery / standby /
\* other (line), so for a completed date the battery, standby, line and
\* missing durations add up to 24 hours.
C29_Partition ==
    (Summarized /\ PastDate) =>
        /\ batteryMinutes = 5 * slicesIn({"Battery Mode"})
        /\ standbyMinutes = 5 * slicesIn({"Standby Mode"})
        /\ batteryMinutes + standbyMinutes + 5 * lineSlices + missingMinutes
               = MinutesPerDay

\* C29 (amended): every retained sample adds one 5-minute slice to exactly
\* one bucket, and for a completed date the four durations add up to 24
\* hours as long as no more than 288 samples are retained; with more
\* retained samples the missing duration is 0 and the other three add up to
\* 5 minutes per retained sample, more than 24 hours.
C29_PartitionUpTo288 ==
    (Summarized /\ PastDate) =>
        /\ batteryMinutes = 5 * slicesIn({"Battery Mode"})
        /\ standbyMinutes = 5 * slicesIn({"Standby Mode"})
        /\ batteryMinutes + standbyMinutes + 5 * lineSlices + missingMinutes
               = 5 * Max(expectedDataPoints, retainedCount)
        /\ retainedCount <= expectedDataPoints =>
               batteryMinutes + standbyMinutes + 5 * lineSlices
                   + missingMinutes = MinutesPerDay

\* C29 witness: yesterday's summary over 24 battery, 12 standby and one
\* other sample: 2 h + 1 h + 5 min + 20 h 55 min missing
C29_Witness ==
    /\ Summarized /\ PastDate
    /\ batteryMinutes = 120
    /\ standbyMinutes = 60
    /\ lineSlices = 1
    /\ missingMinutes = 1255

\* yesterday's summary over 289 retained samples: 24 h 5 min
C29_WitnessOver ==
    /\ Summarized /\ PastDate
    /\ retainedCount = 289
    /\ batteryMinutes + standbyMinutes + 5 * lineSlices + missingMinutes
           = MinutesPerDay + 5

----------------------------------------------------------------------------
\* Properties of the statistics page (SpecPage)

\* the page shows the outcome of a fetchData that has just succeeded
Fetched == page.date # NULL /\ page.lastUpdated = now

\* minutes of the day between sample i - 1 and sample i of the page's data
deltaAt(i) ==
    minutesOfTime(page.data[i].time) - minutesOfTime(page.data[i - 1].time)

\* the consecutive pairs (named by their second sample) more than 6 minutes
\* apart
gapPairs == {i \in 2..Len(page.data) : deltaAt(i) > 6}

\* the gap record of pair i
gapOf(i) ==
    [start |-> page.data[i - 1].time, end |-> page.data[i].time,
     duration |-> deltaAt(i) - 5]

\* C30: gap reporting. Walking the time-ordered retained samples pairwise, a
\* gap record {start, end, duration} is emitted for a consecutive pair
\* exactly when the delta of the two samples' minutes of the day exceeds 6
\* (pairs 5 or 6 minutes apart yield none), with start and end the two sample
\* times and duration the delta less 5 minutes, in the order of the pairs;
\* the number of gap records is the number of such pairs, whatever the
\* expected and missing counts are.
C30_GapReporting ==
    Fetched =>
        /\ Len(page.missingDataGaps) = Cardinality(gapPairs)
        /\ \A i \in gapPairs :
               \E j \in DOMAIN page.missingDataGaps :
                   page.missingDataGaps[j] = gapOf(i)
        /\ \A j \in DOMAIN page.missingDataGaps :
               \E i \in gapPairs : page.missingDataGaps[j] = gapOf(i)
        /\ \A j \in DOMAIN page.missingDataGaps :
               \A k \in DOMAIN page.missingDataGaps :
                   j < k => minutesOfTime(page.missingDataGaps[j].end)
                            <= minutesOfTime(page.missingDataGaps[k].start)

\* C30 witness: samples at 07:00, 07:05, 07:11, 07:18 and 07:40 (deltas 5, 6,
\* 7 and 22 minutes) give two gaps, of 2 and of 17 minutes
C30_Witness ==
    /\ Fetched
    /\ Len(page.data) = 5
    /\ \E i \in 2..5 : deltaAt(i) = 5
    /\ \E i \in 2..5 : deltaAt(i) = 6
    /\ page.missingDataGaps =
           <<[start |-> [hour |-> 7, min |-> 11, sec |-> 2],
              end |-> [hour |-> 7, min |-> 18, sec |-> 0],
              duration |-> 2],
             [start |-> [hour |-> 7, min |-> 18, sec |-> 0],
              end |-> [hour |-> 7, min |-> 40, sec |-> 30],
              duration |-> 17]>>

\* the same graph fetched for today and for yesterday: other expected and
\* missing counts, the same gaps
C30_WitnessToday ==
    /\ Fetched
    /\ page.date = dayOf(bootMinute, now)
    /\ page.expectedDataPoints # expectedDataPoints
    /\ page.missingDataHours > 0
    /\ Len(page.missingDataGaps) = 2

----------------------------------------------------------------------------
\* Properties of overlapping passes (SpecOverlap)

\* C3: re-entrant overlap must not double-alert. Two passes that overlap, the
\* second starting while the first still awaits its notification dispatch,
\* and that read the same deviating value from an inactive monitor, send at
\* most one first-occurrence alert: never are two passes both parked at the
\* dispatch of the reset alert (or both of the load-shedding alert) for the
\* same reading while the monitor is still inactive.
C3_NoDoubleAlert ==
    \A a \in calls, b \in calls :
        (a.id # b.id /\ a.pc = b.pc /\ a.data = b.data)
        => /\ ~(a.pc = "resetAwait" /\ ~state.systemResetDetected)
           /\ ~(a.pc = "shedAwait" /\ ~state.isLoadShedding)

====
